---- MODULE Spec2Model ----
(***************************************************************************)
(* Resume Automator: the content resolution and reconciliation engine.    *)
(*                                                                         *)
(* The stored state is the global catalog (global.json) and the resume     *)
(* documents (resumes/<id>.json).  Every service operation of              *)
(* resumeService.ts is one action: it loads and normalizes the stored      *)
(* state, mutates it, and writes back what the code writes back.           *)
(*                                                                         *)
(* Abstractions.  A text is a sequence of one-character strings, so that   *)
(* the match key of a text is computed the way the code computes it.  Of   *)
(* the three point-bearing sections (experience, projects, openSource),    *)
(* whose code is the same line for line, the model carries experience; of  *)
(* the two plain ones (education, skills) it carries education.  nanoid    *)
(* ids are drawn in a fixed order from pools; timestamps are the value of  *)
(* a logical clock that advances with every mutation.                      *)
(***************************************************************************)
EXTENDS Naturals, Sequences, FiniteSets, TLC

VARIABLES
    global,     \* the stored global catalog (global.json)
    resumes,    \* the stored resume documents: resume id -> document
    commits,    \* global.json as of the commits that changed it, oldest first (last two)
    counters,   \* how many ids of each pool have been drawn
    clock,      \* logical time: the number of mutations performed
    events,     \* the commit events recorded, oldest first
    procs,      \* the requests in flight, when mutations are followed step by step
    last,       \* what the last operation did (history variable)
    tracked,    \* the override and the detached entry being followed (history variable)
    exports     \* the export folder: whether it is set and exists, its manifest, its files

vars == <<global, resumes, commits, counters, clock, events, procs, last, tracked, exports>>

(***************************************************************************)
(* Bounds                                                                  *)
(***************************************************************************)
MaxOps == 3          \* mutations per behaviour
MaxFamilies == 2     \* resume families (templates) that may exist
MaxRefs == 2         \* refs of the point-bearing section of a resume handed to the resolver

(***************************************************************************)
(* Generic helpers                                                         *)
(***************************************************************************)
NoId == "none"       \* an absent optional id (globalId / localId undefined)
EmptyMap == <<>>     \* {} : a map with no key

Range(s) == {s[i] : i \in DOMAIN s}

Has(m, k) == k \in DOMAIN m

Put(m, k, v) == [x \in DOMAIN m \cup {k} |-> IF x = k THEN v ELSE m[x]]

Drop(m, ks) == [x \in DOMAIN m \ ks |-> m[x]]

IndexOf(s, e) == IF e \in Range(s) THEN CHOOSE i \in DOMAIN s : s[i] = e /\ \A j \in 1..(i-1) : s[j] # e
                 ELSE 0

\* Array.prototype.filter with a membership test.
FilterIn(s, set) ==
    LET F[i \in 0..Len(s)] ==
            IF i = 0 THEN <<>>
            ELSE IF s[i] \in set THEN Append(F[i-1], s[i]) ELSE F[i-1]
    IN F[Len(s)]

\* The elements of a set of ids, listed in the order of `order`.
SortBy(order, set) == FilterIn(order, set)

(***************************************************************************)
(* Texts and match keys                                                    *)
(***************************************************************************)
IsSpace(c) == c = " "
IsAlnum(c) == c \in {"a", "b", "A", "B"}
ToLower(c) == IF c = "A" THEN "a" ELSE IF c = "B" THEN "b" ELSE c

\* s.replace(/\s+/g, ' ')
CollapseSpaces(s) ==
    LET F[i \in 0..Len(s)] ==
            IF i = 0 THEN <<>>
            ELSE IF IsSpace(s[i]) /\ i > 1 /\ IsSpace(s[i-1]) THEN F[i-1]
                 ELSE Append(F[i-1], s[i])
    IN F[Len(s)]

\* s.trim()
Trim(s) ==
    LET nonSpace == {i \in DOMAIN s : ~IsSpace(s[i])}
    IN IF nonSpace = {} THEN <<>>
       ELSE SubSeq(s, CHOOSE i \in nonSpace : \A j \in nonSpace : i <= j,
                      CHOOSE i \in nonSpace : \A j \in nonSpace : i >= j)

normalizePointText(text) == Trim(CollapseSpaces(text))

\* Of the markup rules, the alphabet of the model exercises .replace(/\$/g, ''),
\* followed by the closing .replace(/\s+/g, ' ').trim().
stripLatexForMatching(text) == Trim(CollapseSpaces(FilterIn(text, Range(text) \ {"$"})))

\* .toLowerCase().replace(/[^\p{L}\p{N}]+/gu, ' ')
LowerAndSquash(s) ==
    LET F[i \in 0..Len(s)] ==
            IF i = 0 THEN <<>>
            ELSE IF IsAlnum(s[i]) THEN Append(F[i-1], ToLower(s[i]))
                 ELSE IF i > 1 /\ ~IsAlnum(s[i-1]) THEN F[i-1]
                      ELSE Append(F[i-1], " ")
    IN F[Len(s)]

\* The key of a text already normalized and stripped of markup.
KeyOfNormalized(normalized) ==
    IF normalized = <<>> THEN <<>> ELSE Trim(LowerAndSquash(normalized))

buildPointMatchKey(text) == KeyOfNormalized(stripLatexForMatching(normalizePointText(text)))

\* key.split(' ').filter(Boolean), as a set: the maximal runs without a space.
TokensOfKey(key) ==
    { SubSeq(key, p[1], p[2]) : p \in
           { q \in (1..Len(key)) \X (1..Len(key)) :
               /\ q[1] <= q[2]
               /\ \A k \in q[1]..q[2] : ~IsSpace(key[k])
               /\ (q[1] = 1 \/ IsSpace(key[q[1] - 1]))
               /\ (q[2] = Len(key) \/ IsSpace(key[q[2] + 1])) } }

pointTextTokens(text) == TokensOfKey(buildPointMatchKey(text))

\* The similarity threshold 0.9 of buildAutoPointAliasMap, as a fraction.
JaccardNum == 9
JaccardDen == 10

\* jaccardSimilarity(a, b), as the pair <<intersection, union>> (0/1 when a set is empty).
jaccardSimilarity(a, b) ==
    IF a = {} \/ b = {} THEN <<0, 1>>
    ELSE <<Cardinality(a \cap b), Cardinality(a \cup b)>>

\* score1 > score2 on fractions
ScoreGreater(s1, s2) == s1[1] * s2[2] > s2[1] * s1[2]

\* score >= 0.9
ScoreAtLeastThreshold(s) == s[1] * JaccardDen >= JaccardNum * s[2]

(***************************************************************************)
(* Ids and their orders                                                    *)
(***************************************************************************)
\* Object.keys(global.points).sort(): string order of the global point ids.
GlobalPointIdOrder ==
    <<"pt_auto_a", "pt_auto_b", "pt_auto_c", "pt_auto_d", "pt_auto_e", "pt_auto_f",
      "pt_exp_1", "pt_exp_2", "pt_exp_3">>

\* createGlobalPointId draws, in this order.
AutoPointIdPool == <<"pt_auto_b", "pt_auto_a", "pt_auto_c", "pt_auto_d", "pt_auto_e", "pt_auto_f">>

IsAutoId(id) == id \in Range(AutoPointIdPool)   \* id.startsWith('pt_auto_')

\* `lp_${shortId()}` and makeId('lp')
LocalPointIdPool == <<"lp_1", "lp_2", "lp_3", "lp_4", "lp_5", "lp_6", "lp_7", "lp_8">>

\* makeId('lexp')
LocalEntryIdPool == <<"lexp_1", "lexp_2", "lexp_3", "lexp_4">>

\* `resume_${shortId()}`, on both sides of resume_master in file-name order.
ResumeIdPool ==
    <<"resume_a", "resume_z", "resume_b", "resume_y", "resume_c", "resume_x",
      "resume_d", "resume_w", "resume_e", "resume_v", "resume_f", "resume_u">>

\* files.sort() of loadAllResumes
ResumeIdOrder ==
    <<"resume_a", "resume_b", "resume_c", "resume_d", "resume_e", "resume_f",
      "resume_master",
      "resume_u", "resume_v", "resume_w", "resume_x", "resume_y", "resume_z">>

(***************************************************************************)
(* Reference Resolver (resumeAssembler)                                    *)
(***************************************************************************)
Ref(globalId, localId, pointOverrides, includePointIds) ==
    [globalId |-> globalId, localId |-> localId,
     pointOverrides |-> pointOverrides, includePointIds |-> includePointIds]

GlobalRef(id) == Ref(id, NoId, EmptyMap, <<>>)
LocalRef(id) == Ref(NoId, id, EmptyMap, <<>>)

\* A variant of IncludedPointIds that lists the retained ids in includePointIds's order.
IncludedPointIds_InIncludeOrder(pointIds, includePointIds) ==
    IF Len(includePointIds) > 0 THEN FilterIn(includePointIds, Range(pointIds)) ELSE pointIds

\* includePointIds?.length ? pointIds.filter(id => includePointIds.includes(id)) : pointIds
IncludedPointIds(pointIds, includePointIds) ==
    IF Len(includePointIds) > 0 THEN FilterIn(pointIds, Range(includePointIds)) ELSE pointIds

\* included.map(id => pointOverrides[id] ?? id)
ApplyOverrides(included, pointOverrides) ==
    [i \in DOMAIN included |->
        IF Has(pointOverrides, included[i]) THEN pointOverrides[included[i]] ELSE included[i]]

clonePointIdsWithOverrides(pointIds, pointOverrides, includePointIds) ==
    ApplyOverrides(IncludedPointIds(pointIds, includePointIds), pointOverrides)

\* indexById: the last item carrying an id is the one indexed under it.
indexById(items) ==
    [id \in {items[i].id : i \in DOMAIN items} |->
        items[CHOOSE i \in DOMAIN items :
                 items[i].id = id /\ \A j \in DOMAIN items : items[j].id = id => j <= i]]

\* A variant of RefBase that keeps a dangling ref as an entry without points.
RefBase_KeepsDangling(ref, globalIndex, localIndex) ==
    IF ref.globalId # NoId
    THEN (IF Has(globalIndex, ref.globalId) THEN <<globalIndex[ref.globalId]>>
          ELSE <<[id |-> ref.globalId, title |-> "", pointIds |-> <<>>]>>)
    ELSE IF ref.localId # NoId
         THEN (IF Has(localIndex, ref.localId) THEN <<localIndex[ref.localId]>>
               ELSE <<[id |-> ref.localId, title |-> "", pointIds |-> <<>>]>>)
         ELSE <<>>

\* The entity a ref names, as a sequence of zero or one element.
RefBase(ref, globalIndex, localIndex) ==
    IF ref.globalId # NoId
    THEN (IF Has(globalIndex, ref.globalId) THEN <<globalIndex[ref.globalId]>> ELSE <<>>)
    ELSE IF ref.localId # NoId
         THEN (IF Has(localIndex, ref.localId) THEN <<localIndex[ref.localId]>> ELSE <<>>)
         ELSE <<>>

\* The refs mapped to their entities, the unresolved ones filtered out.
ResolveRefs(refs, globalIndex, localIndex) ==
    LET F[i \in 0..Len(refs)] ==
            IF i = 0 THEN <<>> ELSE F[i-1] \o RefBase(refs[i], globalIndex, localIndex)
    IN F[Len(refs)]

resolveEducation(g, resume) ==
    ResolveRefs(resume.sections.education, indexById(g.sections.education),
                indexById(resume.local.education))

\* One ref of a point-bearing section: its entity with the point ids resolved.
ResolvePointRef(ref, base) ==
    IF base = <<>> THEN <<>>
    ELSE <<[base[1] EXCEPT !.pointIds =
               clonePointIdsWithOverrides(base[1].pointIds, ref.pointOverrides,
                                          ref.includePointIds)]>>

ResolvePointRefs(refs, globalIndex, localIndex) ==
    LET F[i \in 0..Len(refs)] ==
            IF i = 0 THEN <<>>
            ELSE F[i-1] \o ResolvePointRef(refs[i], RefBase(refs[i], globalIndex, localIndex))
    IN F[Len(refs)]

resolveExperience(g, resume) ==
    ResolvePointRefs(resume.sections.experience, indexById(g.sections.experience),
                     indexById(resume.local.experience))

\* { ...global.points, ...resume.local.points }
MergedPoints(g, resume) ==
    [id \in DOMAIN g.points \cup DOMAIN resume.local.points |->
        IF Has(resume.local.points, id) THEN resume.local.points[id] ELSE g.points[id]]

buildRenderedResumeData(g, resume) ==
    [header |-> g.header,
     points |-> MergedPoints(g, resume),
     sections |-> [education |-> resolveEducation(g, resume),
                   experience |-> resolveExperience(g, resume)]]

\* items.find(item => item.id === id): the index of the first item with the id, or 0.
FirstIndexWithId(items, id) ==
    IF \E i \in DOMAIN items : items[i].id = id
    THEN CHOOSE i \in DOMAIN items : items[i].id = id /\ \A j \in 1..(i-1) : items[j].id # id
    ELSE 0

\* entry?.pointIds.includes(pointId), for the entry at index `at` (0: no entry)
EntryHasPoint(entries, at, pointId) ==
    at # 0 /\ pointId \in Range(entries[at].pointIds)

refHasPoint(refGlobalId, section, pointId, g) ==
    IF refGlobalId = NoId THEN FALSE
    ELSE IF section = "experience"
         THEN EntryHasPoint(g.sections.experience,
                            FirstIndexWithId(g.sections.experience, refGlobalId), pointId)
         ELSE FALSE

EntryHasIncludedPoint(entries, at, includePointIds, pointId) ==
    at # 0 /\ pointId \in Range(IncludedPointIds(entries[at].pointIds, includePointIds))

refHasPointInLocalEntry(resume, section, localId, includePointIds, pointId) ==
    IF localId = NoId \/ section # "experience" THEN FALSE
    ELSE EntryHasIncludedPoint(resume.local.experience,
                               FirstIndexWithId(resume.local.experience, localId),
                               includePointIds, pointId)

\* Whether a ref of `resume` makes it pass the filter of resumesReferencingGlobalPoint.
RefReferencesGlobalPoint(resume, ref, g, pointId) ==
    IF Has(ref.pointOverrides, pointId) THEN FALSE
    ELSE \/ refHasPoint(ref.globalId, "experience", pointId, g)
         \/ refHasPointInLocalEntry(resume, "experience", ref.localId,
                                    ref.includePointIds, pointId)

\* The ids of the resumes (a map id -> document) that reference the point.
resumesReferencingGlobalPoint(rs, g, pointId) ==
    {id \in DOMAIN rs :
        \E i \in DOMAIN rs[id].sections.experience :
            RefReferencesGlobalPoint(rs[id], rs[id].sections.experience[i], g, pointId)}

(***************************************************************************)
(* Change detection (resumeService)                                        *)
(***************************************************************************)
\* The ids whose text differs, a point missing on one side counting as a difference.
diffGlobalPoints(oldGlobal, nextGlobal) ==
    {id \in DOMAIN oldGlobal.points \cup DOMAIN nextGlobal.points :
        \/ ~Has(oldGlobal.points, id)
        \/ ~Has(nextGlobal.points, id)
        \/ oldGlobal.points[id] # nextGlobal.points[id]}

hasGlobalStructuralChange(oldGlobal, nextGlobal) ==
    \/ oldGlobal.header # nextGlobal.header
    \/ oldGlobal.contactVariants # nextGlobal.contactVariants
    \/ oldGlobal.sections # nextGlobal.sections

(***************************************************************************)
(* State-load normalization                                                *)
(***************************************************************************)
\* The values of the model are non-empty atoms, so trimming leaves them as they are.
uniqueNonEmpty(values) ==
    LET F[i \in 0..Len(values)] ==
            IF i = 0 THEN <<>>
            ELSE IF values[i] = "" \/ values[i] \in Range(F[i-1]) THEN F[i-1]
                 ELSE Append(F[i-1], values[i])
    IN F[Len(values)]

\* header.email.trim() || 'user@example.com'
FallbackEmail(g) == IF g.header.email = "" THEN "user@example.com" ELSE g.header.email

\* header.location.trim() || 'Unknown, USA'
FallbackLocation(g) == IF g.header.location = "" THEN "Unknown, USA" ELSE g.header.location

normalizeGlobalCatalog(g) ==
    [g EXCEPT
       !.header = [g.header EXCEPT !.email = FallbackEmail(g), !.location = FallbackLocation(g)],
       !.contactVariants =
           [emails |-> uniqueNonEmpty(Append(g.contactVariants.emails, FallbackEmail(g))),
            locations |-> uniqueNonEmpty(Append(g.contactVariants.locations, FallbackLocation(g)))]]

defaultEmail(g) == g.contactVariants.emails[1]

defaultLocation(g) == g.contactVariants.locations[1]

normalizeResumeVariantMetadata(resume, g) ==
    [resume EXCEPT
       !.templateId = IF resume.templateId = "" THEN resume.id ELSE resume.templateId,
       !.variantEmail = IF resume.variantEmail = "" THEN defaultEmail(g) ELSE resume.variantEmail,
       !.variantLocation = IF resume.variantLocation = "" THEN defaultLocation(g)
                           ELSE resume.variantLocation]

\* The best candidate of an auto point among the non-auto ones: the candidates are
\* tried in the key order of global.points, which the model takes to be the sorted
\* one; a later candidate replaces the best one only with a higher score.
BestAliasCandidate(autoId, nonAutoIds, tokens) ==
    LET F[i \in 0..Len(nonAutoIds)] ==
            IF i = 0 THEN [id |-> NoId, score |-> <<0, 1>>]
            ELSE IF ScoreGreater(jaccardSimilarity(tokens[autoId], tokens[nonAutoIds[i]]),
                                 F[i-1].score)
                 THEN [id |-> nonAutoIds[i],
                       score |-> jaccardSimilarity(tokens[autoId], tokens[nonAutoIds[i]])]
                 ELSE F[i-1]
    IN F[Len(nonAutoIds)]

\* The alias map, given the best candidate of every auto point with tokens.
AliasMapOfBest(best) ==
    [id \in {a \in DOMAIN best : best[a].id # NoId /\ ScoreAtLeastThreshold(best[a].score)}
        |-> best[id].id]

\* The alias map, given the token set of every global point.
AliasMapOfTokens(pointIds, tokens) ==
    AliasMapOfBest(
        [autoId \in {id \in pointIds : IsAutoId(id) /\ tokens[id] # {}} |->
            BestAliasCandidate(autoId,
                               SortBy(GlobalPointIdOrder, {id \in pointIds : ~IsAutoId(id)}),
                               tokens)])

buildAutoPointAliasMap(g) ==
    AliasMapOfTokens(DOMAIN g.points, [id \in DOMAIN g.points |-> pointTextTokens(g.points[id])])

\* aliasMap[id] ?? id
Aliased(aliasMap, id) == IF Has(aliasMap, id) THEN aliasMap[id] ELSE id

\* A variant of remapPointIds that leaves the ids as they are.
remapPointIds_KeepsIds(pointIds, aliasMap) == pointIds

remapPointIds(pointIds, aliasMap) ==
    LET F[i \in 0..Len(pointIds)] ==
            IF i = 0 THEN <<>>
            ELSE IF Aliased(aliasMap, pointIds[i]) \in Range(F[i-1]) THEN F[i-1]
                 ELSE Append(F[i-1], Aliased(aliasMap, pointIds[i]))
    IN F[Len(pointIds)]

\* Of the override keys that are remapped to `target`, the one whose value is kept:
\* the first in the object's key order, where the model lists an auto id before
\* its target.
FirstOverrideKeyFor(autos, target) ==
    IF autos # {}
    THEN CHOOSE k \in autos : \A o \in autos :
             IndexOf(GlobalPointIdOrder, k) <= IndexOf(GlobalPointIdOrder, o)
    ELSE target

RemapOverrideKeys(pointOverrides, aliasMap) ==
    [t \in {Aliased(aliasMap, k) : k \in DOMAIN pointOverrides} |->
        pointOverrides[FirstOverrideKeyFor(
            {k \in DOMAIN pointOverrides : IsAutoId(k) /\ Aliased(aliasMap, k) = t}, t)]]

RemapEntries(entries, aliasMap) ==
    [i \in DOMAIN entries |->
        [entries[i] EXCEPT !.pointIds = remapPointIds(entries[i].pointIds, aliasMap)]]

RemapRef(ref, aliasMap) ==
    [ref EXCEPT
       !.includePointIds = remapPointIds(ref.includePointIds, aliasMap),
       !.pointOverrides =
           IF DOMAIN ref.pointOverrides \cap DOMAIN aliasMap # {}
           THEN RemapOverrideKeys(ref.pointOverrides, aliasMap)
           ELSE ref.pointOverrides]

RemapResume(r, aliasMap) ==
    [r EXCEPT !.local.experience = RemapEntries(r.local.experience, aliasMap),
              !.sections.experience =
                  [i \in DOMAIN r.sections.experience |->
                      RemapRef(r.sections.experience[i], aliasMap)]]

applyPointAliasMapToGlobalAndResumes(g, rs, aliasMap) ==
    IF DOMAIN aliasMap = {} THEN [global |-> g, resumes |-> rs]
    ELSE [global |-> [g EXCEPT !.sections.experience = RemapEntries(g.sections.experience, aliasMap),
                               !.points = Drop(g.points, DOMAIN aliasMap)],
          resumes |-> [id \in DOMAIN rs |-> RemapResume(rs[id], aliasMap)]]

\* normalizeStoredState, from the normalized catalog on.
NormalizeWithGlobal(normalizedGlobal, rs) ==
    applyPointAliasMapToGlobalAndResumes(
        normalizedGlobal,
        [id \in DOMAIN rs |-> normalizeResumeVariantMetadata(rs[id], normalizedGlobal)],
        buildAutoPointAliasMap(normalizedGlobal))

\* What normalizeStoredState returns, which is also what it leaves stored (it saves
\* the catalog and the resumes whenever normalizing changed them).  Resumes of the
\* model keep headerMode 'global', so the localHeader name repair has nothing to do.
normalizeStoredState(g, rs) == NormalizeWithGlobal(normalizeGlobalCatalog(g), rs)

(***************************************************************************)
(* Point Reconciler: catalog-wide point matching                           *)
(***************************************************************************)
\* The index, given the match key of every global point: of several points with one
\* key, the first id in sorted order is indexed; a point with an empty key is not.
MatchIndexOfKeys(keyOf) ==
    [key \in {keyOf[id] : id \in DOMAIN keyOf} \ {<<>>} |->
        CHOOSE id \in DOMAIN keyOf :
            /\ keyOf[id] = key
            /\ \A o \in DOMAIN keyOf : keyOf[o] = key =>
                   IndexOf(GlobalPointIdOrder, id) <= IndexOf(GlobalPointIdOrder, o)]

buildGlobalPointMatchIndex(g) ==
    MatchIndexOfKeys([id \in DOMAIN g.points |-> buildPointMatchKey(g.points[id])])

\* The position in the pool of the next id createGlobalPointId draws that
\* global.points does not hold yet.
createGlobalPointId(points, drawn) ==
    CHOOSE i \in DOMAIN AutoPointIdPool :
        /\ i > drawn /\ ~Has(points, AutoPointIdPool[i])
        /\ \A j \in DOMAIN AutoPointIdPool :
               (j > drawn /\ ~Has(points, AutoPointIdPool[j])) => i <= j

\* new Map(entries.map(e => [e.id, e])).get(id): the last entry with the id, or 0.
LastIndexWithId(items, id) ==
    IF \E i \in DOMAIN items : items[i].id = id
    THEN CHOOSE i \in DOMAIN items :
             items[i].id = id /\ \A j \in DOMAIN items : items[j].id = id => j <= i
    ELSE 0

\* What one ref contributes to collectUsedLocalPointIds, before the test that the
\* id names a local point; `at` is the index of its local entry (0: none).
UsedByRef(ref, entries, at) ==
    IF ref.localId = NoId \/ at = 0 THEN {}
    ELSE Range(entries[at].pointIds) \cup Range(ref.includePointIds)
           \cup Range(ref.pointOverrides)

collectUsedLocalPointIds(resume) ==
    {pointId \in UNION {UsedByRef(resume.sections.experience[i], resume.local.experience,
                                  LastIndexWithId(resume.local.experience,
                                                  resume.sections.experience[i].localId)) :
                           i \in DOMAIN resume.sections.experience} :
        Has(resume.local.points, pointId)}

\* The state a relink threads through: the resume being relinked, the global points,
\* the match index, the number of auto ids drawn, the `changed` flag, and the
\* list replacePointIds is building.
RelinkState(resume, points, index, drawn) ==
    [resume |-> resume, points |-> points, index |-> index, drawn |-> drawn,
     changed |-> FALSE, out |-> <<>>]

\* replacePointIds, the end of one iteration: push the mapped id unless seen.
PushMapped(a, pointId, mappedPointId) ==
    [a EXCEPT !.out = IF mappedPointId \in Range(@) THEN @ ELSE Append(@, mappedPointId),
              !.changed = @ \/ mappedPointId # pointId \/ mappedPointId \in Range(a.out)]

\* replacePointIds, no global point has the key: create one in pool slot `slot`.
CreateAndPush(a, pointId, pointKey, text, slot) ==
    PushMapped([a EXCEPT !.points = Put(@, AutoPointIdPool[slot], text),
                         !.index = Put(@, pointKey, AutoPointIdPool[slot]),
                         !.drawn = slot],
               pointId, AutoPointIdPool[slot])

\* replacePointIds, the id names a local point whose key is pointKey.
ReplaceLocalPoint(a, pointId, pointKey, text) ==
    IF pointKey = <<>> THEN PushMapped(a, pointId, pointId)
    ELSE IF Has(a.index, pointKey) THEN PushMapped(a, pointId, a.index[pointKey])
    ELSE CreateAndPush(a, pointId, pointKey, text, createGlobalPointId(a.points, a.drawn))

\* replacePointIds, one iteration.
ReplaceStep(a, pointId) ==
    IF Has(a.resume.local.points, pointId)
    THEN ReplaceLocalPoint(a, pointId, buildPointMatchKey(a.resume.local.points[pointId]),
                           a.resume.local.points[pointId])
    ELSE PushMapped(a, pointId, pointId)

\* replacePointIds: the new list is the field `out` of the result.
replacePointIds(pointIds, st) ==
    LET F[i \in 0..Len(pointIds)] ==
            IF i = 0 THEN [st EXCEPT !.out = <<>>] ELSE ReplaceStep(F[i-1], pointIds[i])
    IN F[Len(pointIds)]

\* localEntry.pointIds = nextPointIds
StoreEntryPointIds(b, at) == [b EXCEPT !.resume.local.experience[at].pointIds = b.out]

\* ref.includePointIds = nextIncludePointIds
StoreIncludePointIds(b, i) == [b EXCEPT !.resume.sections.experience[i].includePointIds = b.out]

\* An absent includePointIds is the empty list, which replacePointIds maps to itself.
RelinkIncludePointIds(a, i) ==
    StoreIncludePointIds(replacePointIds(a.resume.sections.experience[i].includePointIds, a), i)

RelinkLocalEntry(a, i, at) ==
    RelinkIncludePointIds(
        StoreEntryPointIds(replacePointIds(a.resume.local.experience[at].pointIds, a), at), i)

\* The body of the loop over the refs of a section.
RelinkRef(a, i, at) ==
    IF a.resume.sections.experience[i].localId = NoId \/ at = 0 THEN a
    ELSE RelinkLocalEntry(a, i, at)

\* A variant of DeleteUnusedLocalPoints that reports the unused points and keeps them.
DeleteUnusedLocalPoints_KeepsPoints(a, used) ==
    [a EXCEPT !.changed = @ \/ (DOMAIN a.resume.local.points \ used) # {}]

\* The local points no live ref uses are deleted.
DeleteUnusedLocalPoints(a, used) ==
    [a EXCEPT !.resume.local.points = Drop(@, DOMAIN @ \ used),
              !.changed = @ \/ (DOMAIN a.resume.local.points \ used) # {}]

RelinkRefs(st) ==
    LET F[i \in 0..Len(st.resume.sections.experience)] ==
            IF i = 0 THEN st
            ELSE RelinkRef(F[i-1], i,
                           LastIndexWithId(F[i-1].resume.local.experience,
                                           F[i-1].resume.sections.experience[i].localId))
    IN F[Len(st.resume.sections.experience)]

CollectAndDelete(a) == DeleteUnusedLocalPoints(a, collectUsedLocalPointIds(a.resume))

\* `st` carries the resume and the shared global points and match index.
relinkResumeLocalPointsToGlobal(st) == CollectAndDelete(RelinkRefs(st))

\* The accumulator of relinkAllResumesToGlobalPoints after one resume.
KeepRelinked(acc, id, relinked, now) ==
    [points |-> relinked.points, index |-> relinked.index, drawn |-> relinked.drawn,
     resumes |-> IF relinked.changed
                 THEN [acc.resumes EXCEPT ![id] = [relinked.resume EXCEPT !.updatedAt = now]]
                 ELSE acc.resumes,
     changedResumeIds |-> IF relinked.changed THEN acc.changedResumeIds \cup {id}
                          ELSE acc.changedResumeIds]

RelinkOne(acc, id, now) ==
    KeepRelinked(acc, id,
                 relinkResumeLocalPointsToGlobal(
                     RelinkState(acc.resumes[id], acc.points, acc.index, acc.drawn)),
                 now)

RelinkInOrder(order, start, now) ==
    LET F[i \in 0..Len(order)] ==
            IF i = 0 THEN start ELSE RelinkOne(F[i-1], order[i], now)
    IN F[Len(order)]

RelinkResult(globalInput, done) ==
    [global |-> [globalInput EXCEPT !.points = done.points],
     resumes |-> done.resumes,
     changedResumeIds |-> done.changedResumeIds,
     drawn |-> done.drawn]

\* The resumes are visited in the order loadAllResumes returned them.
relinkAllResumesToGlobalPoints(globalInput, resumesInput, drawnInput, now) ==
    RelinkResult(globalInput,
                 RelinkInOrder(SortBy(ResumeIdOrder, DOMAIN resumesInput),
                               [points |-> globalInput.points,
                                index |-> buildGlobalPointMatchIndex(globalInput),
                                drawn |-> drawnInput, resumes |-> resumesInput,
                                changedResumeIds |-> {}],
                               now))

(***************************************************************************)
(* Variant Expander                                                        *)
(***************************************************************************)
variantKey(templateId, email, location) == <<templateId, email, location>>

\* A variant of cloneResume whose clone loses the experience refs.
cloneResume_DropsRefs(resume, newId, name, now) ==
    [resume EXCEPT !.id = newId, !.name = name, !.createdAt = now, !.updatedAt = now,
                   !.lastCompiledAt = 0, !.lastCompileStatus = "none",
                   !.lastCompileMessage = <<>>, !.sections.experience = <<>>]

\* lastCompiledAt = 0, lastCompileStatus = "none" and an empty lastCompileMessage stand
\* for undefined (never compiled).
cloneResume(resume, newId, name, now) ==
    [resume EXCEPT !.id = newId, !.name = name, !.createdAt = now, !.updatedAt = now,
                   !.lastCompiledAt = 0, !.lastCompileStatus = "none",
                   !.lastCompileMessage = <<>>]

\* A variant of VariantKeysOf that indexes the templates only, not their variants.
VariantKeysOf_TemplatesOnly(rs) ==
    {variantKey(rs[id].templateId, rs[id].variantEmail, rs[id].variantLocation) :
        id \in {t \in DOMAIN rs : rs[t].templateId = t}}

\* The keys of byVariant before the loops.
VariantKeysOf(rs) ==
    {variantKey(rs[id].templateId, rs[id].variantEmail, rs[id].variantLocation) :
        id \in DOMAIN rs}

\* The k-th (template, email, location) of the three nested loops.
VariantTriple(templates, emails, locations, k) ==
    [template |-> templates[((k - 1) \div (Len(emails) * Len(locations))) + 1],
     email |-> emails[(((k - 1) \div Len(locations)) % Len(emails)) + 1],
     location |-> locations[((k - 1) % Len(locations)) + 1]]

\* The triples the loops visit, in order, that byVariant does not have.
MissingVariants(templates, emails, locations, keys) ==
    LET F[k \in 0..(Len(templates) * Len(emails) * Len(locations))] ==
            IF k = 0 THEN <<>>
            ELSE IF variantKey(VariantTriple(templates, emails, locations, k).template,
                               VariantTriple(templates, emails, locations, k).email,
                               VariantTriple(templates, emails, locations, k).location) \in keys
                 THEN F[k-1]
                 ELSE Append(F[k-1], VariantTriple(templates, emails, locations, k))
    IN F[Len(templates) * Len(emails) * Len(locations)]

\* The clone made for a missing triple.
VariantClone(template, cloneId, triple, now) ==
    [cloneResume(template, cloneId, template.name, now)
        EXCEPT !.templateId = triple.template,
               !.variantEmail = triple.email,
               !.variantLocation = triple.location]

\* The resumes with a clone pushed for each missing triple.
PushVariantClones(rs, missing, drawn, now) ==
    [resumes |-> [id \in DOMAIN rs \cup {ResumeIdPool[drawn + j] : j \in DOMAIN missing} |->
                     IF id \in DOMAIN rs THEN rs[id]
                     ELSE VariantClone(
                              rs[missing[CHOOSE j \in DOMAIN missing :
                                             ResumeIdPool[drawn + j] = id].template],
                              id,
                              missing[CHOOSE j \in DOMAIN missing : ResumeIdPool[drawn + j] = id],
                              now)],
     createdResumeIds |-> {ResumeIdPool[drawn + j] : j \in DOMAIN missing},
     drawn |-> drawn + Len(missing)]

\* `order` lists the ids of `rs` in the order of the resumes array; `templateIds` is the
\* optional filter (all ids when it is not given); `drawn` counts the resume ids drawn.
ensureVariantResumeMatrix(g, rs, order, templateIds, drawn, now) ==
    PushVariantClones(
        rs,
        MissingVariants(FilterIn(order, {id \in DOMAIN rs :
                                            rs[id].templateId = id
                                            /\ rs[id].templateId \in templateIds}),
                        g.contactVariants.emails, g.contactVariants.locations,
                        VariantKeysOf(rs)),
        drawn, now)

\* What compiling one resume may give: the compiler's verdict, and what exporting the
\* PDF did ("off": no export directory is set, or nothing was compiled to export).
CompileResults ==
    {[ok |-> TRUE, exported |-> "off"], [ok |-> TRUE, exported |-> "done"],
     [ok |-> TRUE, exported |-> "failed"], [ok |-> FALSE, exported |-> "off"]}

\* The compiler working and no export directory set, for every resume of `ids`.
CompilerWorks(ids) == [id \in ids |-> [ok |-> TRUE, exported |-> "off"]]

\* compileMessage: the compiler's message, then what the export added to it.
CompileMessage(result) ==
    <<IF result.ok THEN "compiled" ELSE "compile error">>
      \o (IF result.ok /\ result.exported = "done" THEN <<"exported">>
          ELSE IF result.ok /\ result.exported = "failed" THEN <<"export warning">>
          ELSE <<>>)

compileAndUpdateResumes_OneFailureFailsAll(rs, ids, results, now) ==
    [id \in ids |->
        [rs[id] EXCEPT !.lastCompiledAt = now,
                       !.lastCompileStatus = IF \A other \in ids : results[other].ok
                                             THEN "success" ELSE "failed",
                       !.lastCompileMessage = CompileMessage(results[id]),
                       !.updatedAt = now]]

\* The documents compileAndUpdateResumes saves: each one of the batch stamped with
\* `now` and with the status and message of its own result.
compileAndUpdateResumes(rs, ids, results, now) ==
    [id \in ids |->
        [rs[id] EXCEPT !.lastCompiledAt = now,
                       !.lastCompileStatus = IF results[id].ok THEN "success" ELSE "failed",
                       !.lastCompileMessage = CompileMessage(results[id]),
                       !.updatedAt = now]]

recordCommitEvent_NamesNoResume(recorded, affectedResumes) ==
    Append(recorded, [affectedResumes |-> {}])

\* recordCommitEvent: one event, naming the resumes the caller passes.
recordCommitEvent(recorded, affectedResumes) ==
    Append(recorded, [affectedResumes |-> affectedResumes])

\* A map overlaid by another: saveResumes writes one file per document.
Overlay(rs, saved) ==
    [id \in DOMAIN rs \cup DOMAIN saved |-> IF Has(saved, id) THEN saved[id] ELSE rs[id]]

(***************************************************************************)
(* Resume editor (App.tsx): how the drafts that get saved are produced     *)
(***************************************************************************)
\* The source entry of a global ref, as the editor's globalIndexes finds it.
GlobalSource(g, ref) == RefBase(GlobalRef(ref.globalId), indexById(g.sections.experience), EmptyMap)

\* ref.pointOverrides?.[basePointId] ?? basePointId
EffectivePointId(ref, basePointId) ==
    IF Has(ref.pointOverrides, basePointId) THEN ref.pointOverrides[basePointId] ELSE basePointId

\* next.local.points[id]?.text ?? global.points[id]?.text, <<>> when there is none
EffectiveText(draft, g, id) ==
    IF Has(draft.local.points, id) THEN draft.local.points[id]
    ELSE IF Has(g.points, id) THEN g.points[id] ELSE <<>>

\* clonePointIds: the texts of the local points it creates, in order; a point whose
\* text is missing or empty is skipped.
ClonedTexts(draft, g, ref, sourcePointIds) ==
    LET F[i \in 0..Len(sourcePointIds)] ==
            IF i = 0 THEN <<>>
            ELSE IF EffectiveText(draft, g, EffectivePointId(ref, sourcePointIds[i])) = <<>>
                 THEN F[i-1]
                 ELSE Append(F[i-1],
                             EffectiveText(draft, g, EffectivePointId(ref, sourcePointIds[i])))
    IN F[Len(sourcePointIds)]

\* The draft with the local entry pushed and the ref replaced by { localId }.
PushDetached(draft, refIndex, source, texts, lp, lexp) ==
    [draft EXCEPT
       !.local.points =
           [id \in DOMAIN @ \cup {LocalPointIdPool[lp + k] : k \in DOMAIN texts} |->
               IF id \in {LocalPointIdPool[lp + k] : k \in DOMAIN texts}
               THEN texts[CHOOSE k \in DOMAIN texts : LocalPointIdPool[lp + k] = id]
               ELSE @[id]],
       !.local.experience =
           Append(@, [id |-> LocalEntryIdPool[lexp + 1], title |-> source.title,
                      pointIds |-> [k \in DOMAIN texts |-> LocalPointIdPool[lp + k]]]),
       !.sections.experience[refIndex] = LocalRef(LocalEntryIdPool[lexp + 1])]

DetachFromSource(draft, g, refIndex, source, lp, lexp) ==
    IF source = <<>> THEN draft
    ELSE PushDetached(draft, refIndex, source[1],
                      ClonedTexts(draft, g, draft.sections.experience[refIndex],
                                  IncludedPointIds(source[1].pointIds,
                                                   draft.sections.experience[refIndex].includePointIds)),
                      lp, lexp)

\* detachRefToLocal: `lp` and `lexp` count the local point and local entry ids drawn.
detachRefToLocal(draft, g, refIndex, lp, lexp) ==
    IF draft.sections.experience[refIndex].globalId = NoId THEN draft
    ELSE DetachFromSource(draft, g, refIndex,
                          GlobalSource(g, draft.sections.experience[refIndex]), lp, lexp)

\* list.find(item => item.id === ref.localId) of removePointFromRef, then the filter
RemoveFromLocalEntry(draft, at, targetPointId) ==
    IF at = 0 THEN draft
    ELSE [draft EXCEPT !.local.experience[at].pointIds = FilterIn(@, Range(@) \ {targetPointId})]

\* ref.includePointIds = currentlyIncluded.filter(id => id !== sourcePointId)
RemoveFromIncluded(draft, refIndex, currentlyIncluded, sourcePointId) ==
    [draft EXCEPT !.sections.experience[refIndex].includePointIds =
        FilterIn(currentlyIncluded, Range(currentlyIncluded) \ {sourcePointId})]

RemoveFromGlobalRef(draft, refIndex, source, sourcePointId) ==
    IF source = <<>> THEN draft
    ELSE RemoveFromIncluded(draft, refIndex,
                            IF Len(draft.sections.experience[refIndex].includePointIds) > 0
                            THEN draft.sections.experience[refIndex].includePointIds
                            ELSE source[1].pointIds,
                            sourcePointId)

\* removePointFromRef, the editor passing the id of the point shown.
removePointFromRef(draft, g, refIndex, sourcePointId) ==
    IF draft.sections.experience[refIndex].localId # NoId
    THEN RemoveFromLocalEntry(draft,
                              FirstIndexWithId(draft.local.experience,
                                               draft.sections.experience[refIndex].localId),
                              sourcePointId)
    ELSE IF draft.sections.experience[refIndex].globalId # NoId
         THEN RemoveFromGlobalRef(draft, refIndex,
                                  GlobalSource(g, draft.sections.experience[refIndex]),
                                  sourcePointId)
         ELSE draft

updateLocalPoint(draft, pointId, text) ==
    IF ~Has(draft.local.points, pointId) THEN draft
    ELSE [draft EXCEPT !.local.points[pointId] = text]

(***************************************************************************)
(* Catalog inputs: the edits a committed catalog carries (PUT /global)     *)
(***************************************************************************)
patchPoint(g, pointId, text) == [g EXCEPT !.points[pointId] = text]

removeExperience(g, idx) ==
    [g EXCEPT !.sections.experience =
        [i \in 1..(Len(@) - 1) |-> IF i < idx THEN @[i] ELSE @[i + 1]]]

\* A contact variant added when it is not declared, removed when it is.
ToggleIn(list, value) ==
    IF value \in Range(list) THEN FilterIn(list, Range(list) \ {value}) ELSE Append(list, value)

toggleEmail(g, email) == [g EXCEPT !.contactVariants.emails = ToggleIn(@, email)]

toggleLocation(g, location) == [g EXCEPT !.contactVariants.locations = ToggleIn(@, location)]

\* The spacing of the catalog replaced by the other of the two spacings followed.
setSpacing(g) == [g EXCEPT !.spacing = IF @ = "compact" THEN "wide" ELSE "compact"]

(***************************************************************************)
(* Service operations (resumeService)                                      *)
(***************************************************************************)
\* A variant of AffectedIds that forgets the resumes the relink pass changed.
AffectedIds_WithoutRelinked(structuralChange, changedPointIds, changedResumeIds, createdResumeIds, rs, g) ==
    createdResumeIds \cup
      (IF structuralChange \/ changedPointIds = {}
       THEN DOMAIN rs
       ELSE UNION {resumesReferencingGlobalPoint(rs, g, pointId) : pointId \in changedPointIds})

\* The affected set of updateGlobalCatalog, computed on the resumes after relink and
\* variant expansion (`rs`) and the relinked catalog (`g`).
AffectedIds(structuralChange, changedPointIds, changedResumeIds, createdResumeIds, rs, g) ==
    changedResumeIds \cup createdResumeIds \cup
      (IF structuralChange \/ changedPointIds = {}
       THEN DOMAIN rs
       ELSE UNION {resumesReferencingGlobalPoint(rs, g, pointId) : pointId \in changedPointIds})

\* A variant of UpdateStored that compiles and saves every resume.
UpdateStored_CompilesAll(normalizedState, normalizedNextGlobal, relinked, matrix, affectedIds, cnt, now) ==
    [global |-> relinked.global,
     resumes |-> Overlay(normalizedState.resumes,
                         compileAndUpdateResumes(matrix.resumes, DOMAIN matrix.resumes,
                                                 CompilerWorks(DOMAIN matrix.resumes), now)),
     counters |-> [cnt EXCEPT !.auto = relinked.drawn, !.resume = matrix.drawn],
     affected |-> affectedIds,
     oldGlobal |-> normalizedState.global,
     newGlobal |-> normalizedNextGlobal,
     before |-> normalizedState.resumes,
     afterRelink |-> relinked.resumes,
     afterMatrix |-> matrix.resumes]

\* updateGlobalCatalog, its end: what it stores and what it computed on the way.
UpdateStored(normalizedState, normalizedNextGlobal, relinked, matrix, affectedIds, cnt, now) ==
    [global |-> relinked.global,
     resumes |-> Overlay(normalizedState.resumes,
                         compileAndUpdateResumes(matrix.resumes, affectedIds,
                                                 CompilerWorks(affectedIds), now)),
     counters |-> [cnt EXCEPT !.auto = relinked.drawn, !.resume = matrix.drawn],
     affected |-> affectedIds,
     oldGlobal |-> normalizedState.global,
     newGlobal |-> normalizedNextGlobal,
     before |-> normalizedState.resumes,
     afterRelink |-> relinked.resumes,
     afterMatrix |-> matrix.resumes]

\* updateGlobalCatalog, from the variant matrix on.
UpdateExpanded(normalizedState, normalizedNextGlobal, relinked, matrix, cnt, now) ==
    UpdateStored(normalizedState, normalizedNextGlobal, relinked, matrix,
                 AffectedIds(hasGlobalStructuralChange(normalizedState.global,
                                                       normalizedNextGlobal),
                             diffGlobalPoints(normalizedState.global, normalizedNextGlobal),
                             relinked.changedResumeIds, matrix.createdResumeIds,
                             matrix.resumes, relinked.global),
                 cnt, now)

\* updateGlobalCatalog, from the relink on.
UpdateRelinked(normalizedState, normalizedNextGlobal, relinked, cnt, now) ==
    UpdateExpanded(normalizedState, normalizedNextGlobal, relinked,
                   ensureVariantResumeMatrix(relinked.global, relinked.resumes,
                                             SortBy(ResumeIdOrder, DOMAIN relinked.resumes),
                                             DOMAIN relinked.resumes, cnt.resume, now),
                   cnt, now)

\* updateGlobalCatalog, from the normalized stored state and the normalized input on.
UpdateNormalized(normalizedState, normalizedNextGlobal, cnt, now) ==
    UpdateRelinked(normalizedState, normalizedNextGlobal,
                   relinkAllResumesToGlobalPoints(
                       [normalizedNextGlobal EXCEPT !.updatedAt = now],
                       normalizedState.resumes, cnt.auto, now),
                   cnt, now)

\* updateGlobalCatalog, from the stored (g, rs): what it stores and what it computed.
updateGlobalCatalog(g, rs, cnt, nextGlobal, now) ==
    UpdateNormalized(normalizeStoredState(g, rs), normalizeGlobalCatalog(nextGlobal), cnt, now)

\* The result of a resume operation that found nothing to do.
NothingSaved(normalized) ==
    [global |-> normalized.global, resumes |-> normalized.resumes, family |-> {}]

\* A variant of UpdatedFamily that takes the variant stamp from nextResume.
UpdatedFamily_TakesVariantStamp(rs, family, nextResume, now) ==
    [id \in family |->
        [nextResume EXCEPT
           !.id = id,
           !.templateId = rs[id].templateId,
           !.createdAt = rs[id].createdAt,
           !.updatedAt = now]]

\* family.map(resume => ({...nextResume, id, templateId, variantEmail, ...}))
UpdatedFamily(rs, family, nextResume, now) ==
    [id \in family |->
        [nextResume EXCEPT
           !.id = id,
           !.templateId = rs[id].templateId,
           !.variantEmail = rs[id].variantEmail,
           !.variantLocation = rs[id].variantLocation,
           !.createdAt = rs[id].createdAt,
           !.updatedAt = now]]

\* The trailing getResumeDetail of a resume operation normalizes the stored state.
DetailOf(g, rs, family) ==
    [global |-> normalizeStoredState(g, rs).global,
     resumes |-> normalizeStoredState(g, rs).resumes,
     family |-> family]

SaveFamily(normalized, family, nextResume, now) ==
    DetailOf(normalized.global,
             Overlay(normalized.resumes,
                     compileAndUpdateResumes(
                         UpdatedFamily(normalized.resumes, family, nextResume, now),
                         family, CompilerWorks(family), now)),
             family)

\* updateResumeDocument, after normalizeStoredState.
UpdateDocumentIn(normalized, resumeId, nextResume, now) ==
    IF ~Has(normalized.resumes, resumeId) THEN NothingSaved(normalized)
    ELSE SaveFamily(normalized,
                    {id \in DOMAIN normalized.resumes :
                        normalized.resumes[id].templateId
                          = normalized.resumes[resumeId].templateId},
                    nextResume, now)

\* updateResumeDocument: the documents it stores (the stored ones when the id is unknown).
updateResumeDocument(g, rs, resumeId, nextResume, now) ==
    UpdateDocumentIn(normalizeStoredState(g, rs), resumeId, nextResume, now)

\* The ref overridePointForResume picks: the first whose globalId or localId is refId.
FindRef(refs, refId) ==
    IF \E i \in DOMAIN refs : refs[i].globalId = refId \/ refs[i].localId = refId
    THEN CHOOSE i \in DOMAIN refs :
             /\ refs[i].globalId = refId \/ refs[i].localId = refId
             /\ \A j \in 1..(i-1) : ~(refs[j].globalId = refId \/ refs[j].localId = refId)
    ELSE 0

\* The resume with the override recorded on the ref at index `at`.
WithOverride(resume, at, pointId, localPointId, text) ==
    [resume EXCEPT
       !.sections.experience[at].pointOverrides = Put(@, pointId, localPointId),
       !.local.points = Put(@, localPointId, text)]

OverrideAt(normalized, resumeId, at, pointId, text, lp, now) ==
    IF at = 0 THEN NothingSaved(normalized)
    ELSE updateResumeDocument(normalized.global, normalized.resumes, resumeId,
                              WithOverride(normalized.resumes[resumeId], at, pointId,
                                           LocalPointIdPool[lp + 1], text),
                              now)

OverrideIn(normalized, resumeId, refId, pointId, text, lp, now) ==
    IF ~Has(normalized.resumes, resumeId) THEN NothingSaved(normalized)
    ELSE OverrideAt(normalized, resumeId,
                    FindRef(normalized.resumes[resumeId].sections.experience, refId),
                    pointId, text, lp, now)

\* overridePointForResume on section experience; `lp` counts the local point ids drawn.
overridePointForResume(g, rs, resumeId, refId, pointId, text, lp, now) ==
    OverrideIn(normalizeStoredState(g, rs), resumeId, refId, pointId, text, lp, now)

\* A variant of TemplateResume that leaves the clone in the family of its source.
TemplateResume_KeepsSourceFamily(base, g, templateId, name, now) ==
    cloneResume(base, templateId, name, now)

\* const templateResume = cloneResume(base, templateId, name), with its variant fields
TemplateResume(base, g, templateId, name, now) ==
    [cloneResume(base, templateId, name, now) EXCEPT
       !.templateId = templateId,
       !.variantEmail = IF base.variantEmail = "" THEN defaultEmail(g) ELSE base.variantEmail,
       !.variantLocation = IF base.variantLocation = "" THEN defaultLocation(g)
                           ELSE base.variantLocation]

\* createResume, its end: the created family is saved and compiled.
SaveCreated(normalized, matrix, createdFamily, now) ==
    [global |-> DetailOf(normalized.global,
                         Overlay(normalized.resumes,
                                 compileAndUpdateResumes(matrix.resumes, createdFamily,
                                                         CompilerWorks(createdFamily), now)),
                         createdFamily).global,
     resumes |-> DetailOf(normalized.global,
                          Overlay(normalized.resumes,
                                  compileAndUpdateResumes(matrix.resumes, createdFamily,
                                                         CompilerWorks(createdFamily), now)),
                          createdFamily).resumes,
     drawn |-> matrix.drawn,
     family |-> createdFamily]

CreateExpanded(normalized, templateId, matrix, now) ==
    SaveCreated(normalized, matrix,
                {id \in DOMAIN matrix.resumes : matrix.resumes[id].templateId = templateId}, now)

CreateFrom(normalized, order, base, templateId, name, drawn, now) ==
    CreateExpanded(normalized, templateId,
                   ensureVariantResumeMatrix(
                       normalized.global,
                       Put(normalized.resumes, templateId,
                           TemplateResume(base, normalized.global, templateId, name, now)),
                       Append(order, templateId), {templateId}, drawn + 1, now),
                   now)

\* A variant of CreateIn that falls back to the last stored resume.
CreateIn_ClonesLast(normalized, order, name, sourceResumeId, drawn, now) ==
    CreateFrom(normalized, order,
               IF sourceResumeId # NoId /\ Has(normalized.resumes, sourceResumeId)
               THEN normalized.resumes[sourceResumeId]
               ELSE normalized.resumes[order[Len(order)]],
               ResumeIdPool[drawn + 1], name, drawn, now)

CreateIn(normalized, order, name, sourceResumeId, drawn, now) ==
    CreateFrom(normalized, order,
               IF sourceResumeId # NoId /\ Has(normalized.resumes, sourceResumeId)
               THEN normalized.resumes[sourceResumeId]
               ELSE normalized.resumes[order[1]],
               ResumeIdPool[drawn + 1], name, drawn, now)

\* createResume; `drawn` counts the resume ids drawn.  The documents it stores.
createResume(g, rs, name, sourceResumeId, drawn, now) ==
    CreateIn(normalizeStoredState(g, rs),
             SortBy(ResumeIdOrder, DOMAIN normalizeStoredState(g, rs).resumes),
             name, sourceResumeId, drawn, now)

\* commitAll after a mutation: global.json enters the history when it changed; the
\* model keeps the last two versions, which is what rollback reads.
Committed(history, g) ==
    IF history[Len(history)] = g THEN history
    ELSE IF Len(history) < 2 THEN Append(history, g)
         ELSE <<history[Len(history)], g>>

(***************************************************************************)
(* The state machine                                                       *)
(***************************************************************************)
\* The texts a request may carry: a case variant of the seeded "a", two orders of the
\* same two words, and a whitespace-only text.
TextInputs == {<<"A">>, <<"a", " ", "b">>, <<"b", " ", "a">>, <<" ">>}

\* The texts an override is typed with (the editor refuses a blank one).
OverrideTexts == {<<"A">>, <<"b", " ", "a">>}

SeedGlobal ==
    [header |-> [name |-> "Name", email |-> "e1", location |-> "l1"],
     contactVariants |-> [emails |-> <<"e1">>, locations |-> <<"l1">>],
     spacing |-> "compact",
     points |-> ("pt_exp_1" :> <<"a">>) @@ ("pt_exp_2" :> <<"b">>),
     sections |-> [education |-> <<[id |-> "edu_1"]>>,
                   experience |-> <<[id |-> "exp_1", title |-> "Company",
                                     pointIds |-> <<"pt_exp_1", "pt_exp_2">>]>>],
     updatedAt |-> 0]

SeedResume ==
    [id |-> "resume_master", templateId |-> "resume_master",
     variantEmail |-> "e1", variantLocation |-> "l1", name |-> "Master Resume",
     sections |-> [education |-> <<GlobalRef("edu_1")>>, experience |-> <<GlobalRef("exp_1")>>],
     local |-> [points |-> EmptyMap, education |-> <<>>, experience |-> <<>>],
     createdAt |-> 0, updatedAt |-> 0, lastCompiledAt |-> 0,
     lastCompileStatus |-> "none", lastCompileMessage |-> <<>>]

\* The export folder after construction: settings.json without exportPdfDir and an empty
\* export manifest.  `dir`: exportPdfDir is set; `folder`: the folder exists on disk.
NoExports == [dir |-> FALSE, folder |-> FALSE, manifest |-> EmptyMap, files |-> {}]

NoOverride == [active |-> FALSE, resumeId |-> NoId, refId |-> NoId, pointId |-> NoId, text |-> <<>>]
NoDetached == [active |-> FALSE, resumeId |-> NoId, localId |-> NoId, texts |-> <<>>]

\* The requests that may be in flight at once in the stepwise runs.
MaxProcs == 2
Procs == 1..MaxProcs

\* No request is in flight: each operation runs from its start to its end in one step.
NoProcs == [p \in Procs |-> [pc |-> "idle"]]

\* What an operation that is not a catalog update records.
Did(op, g, rs, affected) ==
    [op |-> op, affected |-> affected, oldGlobal |-> g, newGlobal |-> g,
     before |-> rs, afterRelink |-> rs, afterMatrix |-> rs]

Init ==
    /\ global = SeedGlobal
    /\ resumes = ("resume_master" :> SeedResume)
    /\ commits = <<SeedGlobal>>
    /\ counters = [lp |-> 0, lexp |-> 0, auto |-> 0, resume |-> 0]
    /\ clock = 0
    /\ events = <<>>
    /\ procs = NoProcs
    /\ last = Did("bootstrap", SeedGlobal, "resume_master" :> SeedResume, {})
    /\ tracked = [override |-> NoOverride, detached |-> NoDetached]
    /\ exports = NoExports

\* The catalogs a commit may carry, made from the catalog the editor was given.
CatalogInputs(g) ==
    {g}
      \cup {patchPoint(g, pointId, text) : pointId \in DOMAIN g.points, text \in TextInputs}
      \cup {removeExperience(g, idx) : idx \in DOMAIN g.sections.experience}
      \cup {toggleEmail(g, "e2"), toggleLocation(g, "l2")}
      \cup {setSpacing(g)}
      \cup {setSpacing(patchPoint(g, pointId, <<"A">>)) : pointId \in DOMAIN g.points}

\* The stored state and the history after a catalog update that returned `r`.
StoreCatalogUpdate(op, r) ==
    /\ global' = r.global
    /\ resumes' = r.resumes
    /\ counters' = r.counters
    /\ commits' = Committed(commits, r.global)
    /\ events' = recordCommitEvent(events, r.affected)
    /\ clock' = clock + 1
    /\ UNCHANGED <<procs, exports>>
    /\ last' = [op |-> op, affected |-> r.affected, oldGlobal |-> r.oldGlobal,
                newGlobal |-> r.newGlobal, before |-> r.before,
                afterRelink |-> r.afterRelink, afterMatrix |-> r.afterMatrix]
    /\ UNCHANGED tracked

\* The catalog update proper, shared by the commit of an edited catalog and rollback.
ApplyGlobalUpdate(op, nextGlobal) ==
    StoreCatalogUpdate(op, updateGlobalCatalog(global, resumes, counters, nextGlobal, clock + 1))

UpdateGlobalCatalog ==
    /\ clock < MaxOps
    /\ \E nextGlobal \in CatalogInputs(normalizeStoredState(global, resumes).global) :
          ApplyGlobalUpdate("updateGlobalCatalog", nextGlobal)

\* rollbackLastGlobalCatalogChange: the catalog of the second newest commit of global.json.
RollbackLastGlobalCatalogChange ==
    /\ clock < MaxOps
    /\ Len(commits) >= 2
    /\ ApplyGlobalUpdate("rollbackLastGlobalCatalogChange", commits[Len(commits) - 1])

\* The point ids the editor shows under a ref: those of the entity the ref names.
ShownPointIds(base) == IF base = <<>> THEN {} ELSE Range(base[1].pointIds)

RefSourcePointIds(g, doc, ref) ==
    ShownPointIds(RefBase(ref, indexById(g.sections.experience),
                          indexById(doc.local.experience)))

\* A draft the editor saves, with the ids it drew.
DraftInput(kind, draft, lp, lexp, localId) ==
    [kind |-> kind, draft |-> draft, lp |-> lp, lexp |-> lexp, localId |-> localId]

\* The draft with a ref detached: one local entry id drawn, and a local point id for
\* each point of the new entry.
DetachInput(draft) ==
    DraftInput("detach", draft,
               Len(draft.local.experience[Len(draft.local.experience)].pointIds), 1,
               draft.local.experience[Len(draft.local.experience)].id)

\* A ref detached and one of the copies retyped before the draft is saved.
DetachAndRetypeInputs(doc, detached) ==
    {DetachInput(updateLocalPoint(detached, pointId, text)) :
        pointId \in DOMAIN detached.local.points \ DOMAIN doc.local.points,
        text \in TextInputs}

\* The drafts the editor saves for a document: the document as loaded, a ref detached,
\* a ref detached and a copy retyped, a point removed from a ref, a local point retyped.
DraftInputs(g, doc, lp, lexp) ==
    {DraftInput("resave", doc, 0, 0, NoId)}
      \cup {DetachInput(detachRefToLocal(doc, g, i, lp, lexp)) :
               i \in {j \in DOMAIN doc.sections.experience :
                         doc.sections.experience[j].globalId # NoId
                         /\ GlobalSource(g, doc.sections.experience[j]) # <<>>}}
      \cup UNION {DetachAndRetypeInputs(doc, detachRefToLocal(doc, g, i, lp, lexp)) :
                     i \in {j \in DOMAIN doc.sections.experience :
                               doc.sections.experience[j].globalId # NoId
                               /\ GlobalSource(g, doc.sections.experience[j]) # <<>>}}
      \cup UNION {{DraftInput("removePoint", removePointFromRef(doc, g, i, pointId), 0, 0, NoId) :
                      pointId \in RefSourcePointIds(g, doc, doc.sections.experience[i])} :
                  i \in DOMAIN doc.sections.experience}
      \cup {DraftInput("updateLocalPoint", updateLocalPoint(doc, pointId, text), 0, 0, NoId) :
               pointId \in DOMAIN doc.local.points, text \in TextInputs}

\* The text shown for a point id that names no point.
MissingText == <<"?">>

\* The bullet texts of the entry at index `at` of a rendered experience section.
EntryTextsAt(rendered, at) ==
    IF at = 0 THEN <<>>
    ELSE [i \in DOMAIN rendered.sections.experience[at].pointIds |->
             IF Has(rendered.points, rendered.sections.experience[at].pointIds[i])
             THEN rendered.points[rendered.sections.experience[at].pointIds[i]]
             ELSE MissingText]

\* The bullet texts a rendered resume shows for the entry with the id.
EntryTexts(rendered, entryId) ==
    EntryTextsAt(rendered, FirstIndexWithId(rendered.sections.experience, entryId))

\* The stored state and the history after a resume operation that returned `r`.
StoreResumeUpdate(op, before, r, request) ==
    /\ global' = r.global
    /\ resumes' = r.resumes
    /\ commits' = Committed(commits, r.global)
    /\ events' = IF r.family = {} THEN events ELSE recordCommitEvent(events, r.family)
    /\ clock' = clock + 1
    /\ UNCHANGED <<procs, exports>>
    /\ last' = Did(op, r.global, before, r.family) @@ [request |-> request]

StoreDraft(resumeId, input, before, r) ==
    /\ StoreResumeUpdate("updateResumeDocument", before, r,
                         [resumeId |-> resumeId, nextResume |-> input.draft])
    /\ counters' = [counters EXCEPT !.lp = @ + input.lp, !.lexp = @ + input.lexp]
    /\ tracked' =
         [override |-> NoOverride,
          detached |->
            IF input.kind = "detach"
            THEN [active |-> TRUE, resumeId |-> resumeId, localId |-> input.localId,
                  texts |-> EntryTexts(buildRenderedResumeData(r.global, r.resumes[resumeId]),
                                       input.localId)]
            ELSE NoDetached]

SaveDraft(resumeId, normalized) ==
    \E input \in DraftInputs(normalized.global, normalized.resumes[resumeId],
                             counters.lp, counters.lexp) :
        StoreDraft(resumeId, input, normalized.resumes,
                   updateResumeDocument(global, resumes, resumeId, input.draft, clock + 1))

UpdateResumeDocument ==
    /\ clock < MaxOps
    /\ \E resumeId \in DOMAIN resumes :
          SaveDraft(resumeId, normalizeStoredState(global, resumes))

\* The ids a request may name for a ref.
RefIdsOf(doc) ==
    ({doc.sections.experience[i].globalId : i \in DOMAIN doc.sections.experience}
       \cup {doc.sections.experience[i].localId : i \in DOMAIN doc.sections.experience})
      \ {NoId}

StoreOverride(resumeId, refId, pointId, text, before, r) ==
    /\ StoreResumeUpdate("overridePointForResume", before, r,
                         [resumeId |-> resumeId, refId |-> refId, pointId |-> pointId,
                          text |-> text])
    /\ counters' = [counters EXCEPT !.lp = @ + 1]
    /\ tracked' = [override |-> [active |-> TRUE, resumeId |-> resumeId, refId |-> refId,
                                 pointId |-> pointId, text |-> text],
                   detached |-> NoDetached]

\* The override requests the editor sends for a document: a point shown under a ref.
OverrideRequests(g, doc) ==
    UNION {{[refId |-> refId, pointId |-> pointId] :
               pointId \in RefSourcePointIds(
                               g, doc,
                               doc.sections.experience[FindRef(doc.sections.experience, refId)])} :
           refId \in RefIdsOf(doc)}

SendOverride(resumeId, normalized) ==
    \E request \in OverrideRequests(normalized.global, normalized.resumes[resumeId]),
       text \in OverrideTexts :
        StoreOverride(resumeId, request.refId, request.pointId, text, normalized.resumes,
                      overridePointForResume(global, resumes, resumeId, request.refId,
                                             request.pointId, text, counters.lp, clock + 1))

OverridePointForResume ==
    /\ clock < MaxOps
    /\ \E resumeId \in DOMAIN resumes :
          SendOverride(resumeId, normalizeStoredState(global, resumes))

\* The families stored: the distinct templateIds.
Families(rs) == {rs[id].templateId : id \in DOMAIN rs}

StoreCreated(name, sourceResumeId, before, r) ==
    /\ StoreResumeUpdate("createResume", before, r,
                         [name |-> name, sourceResumeId |-> sourceResumeId])
    /\ counters' = [counters EXCEPT !.resume = r.drawn]
    /\ UNCHANGED tracked

CreateResume ==
    /\ clock < MaxOps
    /\ Cardinality(Families(resumes)) < MaxFamilies
    /\ \E sourceResumeId \in DOMAIN resumes \cup {NoId, "resume_unknown"} :
          StoreCreated("New Resume", sourceResumeId,
                       normalizeStoredState(global, resumes).resumes,
                       createResume(global, resumes, "New Resume", sourceResumeId,
                                    counters.resume, clock + 1))

StoreNormalized(normalized) ==
    /\ global' = normalized.global
    /\ resumes' = normalized.resumes
    /\ last' = Did("getResumeDetail", normalized.global, normalized.resumes, {})
                  @@ [stored |-> [global |-> global, resumes |-> resumes]]
    /\ UNCHANGED <<commits, counters, clock, events, procs, tracked, exports>>

\* getResumeDetail: a read, which stores the normalized state when normalizing changed it.
GetResumeDetail == StoreNormalized(normalizeStoredState(global, resumes))

Next ==
    \/ UpdateGlobalCatalog
    \/ RollbackLastGlobalCatalogChange
    \/ UpdateResumeDocument
    \/ OverridePointForResume
    \/ CreateResume
    \/ GetResumeDetail

Spec == Init /\ [][Next]_vars

(***************************************************************************)
(* Claims about overrides and detached entries                             *)
(***************************************************************************)
\* The texts the resolved view shows for one ref whose entity is `base`.
ResolvedRefTexts(g, doc, ref, base) ==
    [i \in DOMAIN ResolvePointRef(ref, base)[1].pointIds |->
        IF Has(MergedPoints(g, doc), ResolvePointRef(ref, base)[1].pointIds[i])
        THEN MergedPoints(g, doc)[ResolvePointRef(ref, base)[1].pointIds[i]]
        ELSE MissingText]

\* While P is a point the ref retains, the view shows the override text at P's place.
OverrideShownFor(o, g, doc, ref, base) ==
    (base # <<>> /\ o.pointId \in Range(IncludedPointIds(base[1].pointIds, ref.includePointIds)))
      => ResolvedRefTexts(g, doc, ref, base)[
             IndexOf(IncludedPointIds(base[1].pointIds, ref.includePointIds), o.pointId)] = o.text

OverrideShownAt(o, g, doc, at) ==
    at # 0 => OverrideShownFor(o, g, doc, doc.sections.experience[at],
                               RefBase(doc.sections.experience[at],
                                       indexById(g.sections.experience),
                                       indexById(doc.local.experience)))

OverrideShown(o, g, doc) ==
    OverrideShownAt(o, g, doc, FindRef(doc.sections.experience, o.refId))

\* C1: from the moment overridePointForResume succeeded for point P on a ref of R,
\* and as long as the user has not edited R's documents again, the resolved view of
\* R shows the override text at P's place in that ref (while the ref still retains
\* P), whatever catalog updates happened since.
C1_OverrideKeepsShowing ==
    tracked.override.active
      => OverrideShown(tracked.override, global, resumes[tracked.override.resumeId])

\* Only texts of existing points differ between the two catalogs, and at least one does.
OnlyPointTextsEdited(oldGlobal, newGlobal) ==
    /\ oldGlobal.header = newGlobal.header
    /\ oldGlobal.contactVariants = newGlobal.contactVariants
    /\ oldGlobal.sections = newGlobal.sections
    /\ oldGlobal.spacing = newGlobal.spacing
    /\ DOMAIN oldGlobal.points = DOMAIN newGlobal.points
    /\ oldGlobal.points # newGlobal.points

\* C2: an updateGlobalCatalog that only edits global point texts leaves the bullet
\* texts that R1 renders for its detached entry as they were before the update.
C2_DetachedTextsUnaffected ==
    (/\ tracked.detached.active
     /\ last.op = "updateGlobalCatalog"
     /\ OnlyPointTextsEdited(last.oldGlobal, last.newGlobal))
      => EntryTexts(buildRenderedResumeData(global, resumes[tracked.detached.resumeId]),
                    tracked.detached.localId)
           = EntryTexts(buildRenderedResumeData(last.oldGlobal,
                                                last.before[tracked.detached.resumeId]),
                        tracked.detached.localId)

\* The point ids a resume reaches: the pointIds of its local entities, and the
\* includePointIds members and pointOverrides values of its refs.
ReachablePointIds(doc) ==
    UNION {Range(doc.local.experience[i].pointIds) : i \in DOMAIN doc.local.experience}
      \cup UNION {Range(doc.sections.experience[i].includePointIds) \cup
                    Range(doc.sections.experience[i].pointOverrides) :
                  i \in DOMAIN doc.sections.experience}

\* C3: after every completed mutation, every key of every resume's local.points is
\* reachable from that resume; no orphan local point remains.
C3_NoOrphanLocalPoint ==
    \A id \in DOMAIN resumes : DOMAIN resumes[id].local.points \subseteq ReachablePointIds(resumes[id])

\* The local entities a resume references.
ReferencedLocalEntries(doc) ==
    {i \in DOMAIN doc.local.experience :
        \E j \in DOMAIN doc.sections.experience :
            doc.sections.experience[j].localId = doc.local.experience[i].id}

\* C4: every point id in the pointIds of a local entity that a resume references
\* names a point of that resume's local pool or of the global pool.
C4_LocalEntryPointsExist ==
    \A id \in DOMAIN resumes :
        \A i \in ReferencedLocalEntries(resumes[id]) :
            Range(resumes[id].local.experience[i].pointIds)
              \subseteq DOMAIN resumes[id].local.points \cup DOMAIN global.points

(***************************************************************************)
(* Claims about the variant matrix and the affected set                    *)
(***************************************************************************)
\* The stored resumes of template T that carry the (email, location) pair.
VariantsOf(rs, templateId, email, location) ==
    {id \in DOMAIN rs :
        /\ rs[id].templateId = templateId
        /\ rs[id].variantEmail = email
        /\ rs[id].variantLocation = location}

\* Every template has exactly one resume for every declared (email, location) pair.
MatrixComplete(g, rs) ==
    \A t \in {id \in DOMAIN rs : rs[id].templateId = id} :
        \A e \in Range(g.contactVariants.emails), l \in Range(g.contactVariants.locations) :
            Cardinality(VariantsOf(rs, t, e, l)) = 1

\* C5: in every state from the seeded one on, every template has exactly one stored
\* resume for every (email, location) pair of the stored catalog, and an
\* updateGlobalCatalog whose catalog is the stored one creates no resume.
C5_VariantMatrixComplete ==
    /\ MatrixComplete(global, resumes)
    /\ (last.op = "updateGlobalCatalog" /\ last.newGlobal = last.oldGlobal)
         => DOMAIN last.afterMatrix = DOMAIN last.before

\* An unchanged catalog was committed again while two emails and several resumes exist.
C5_Witness ==
    /\ last.op = "updateGlobalCatalog"
    /\ last.newGlobal = last.oldGlobal
    /\ Len(global.contactVariants.emails) = 2
    /\ Cardinality(Families(resumes)) = 2
    /\ Cardinality(DOMAIN resumes) >= 4

\* C6: after a load (normalization) and after every catalog update, every stored
\* resume's variantEmail and variantLocation are declared in the stored catalog.
C6_VariantsDeclared ==
    last.op \in {"getResumeDetail", "updateGlobalCatalog", "rollbackLastGlobalCatalogChange"}
      => \A id \in DOMAIN resumes :
            /\ resumes[id].variantEmail \in Range(global.contactVariants.emails)
            /\ resumes[id].variantLocation \in Range(global.contactVariants.locations)

\* The points whose text the update changed.
EditedPointIds(oldGlobal, newGlobal) ==
    {id \in DOMAIN oldGlobal.points : oldGlobal.points[id] # newGlobal.points[id]}

\* Whether the resolved point list of `doc`, before overrides are substituted,
\* contains P through a ref that carries no override for P.
ResolvesPoint(g, doc, pointId) ==
    \E i \in DOMAIN doc.sections.experience :
        /\ ~Has(doc.sections.experience[i].pointOverrides, pointId)
        /\ \E base \in Range(<<RefBase(doc.sections.experience[i],
                                       indexById(g.sections.experience),
                                       indexById(doc.local.experience))>>) :
              /\ base # <<>>
              /\ pointId \in Range(IncludedPointIds(base[1].pointIds,
                                                    doc.sections.experience[i].includePointIds))

\* C7: when an updateGlobalCatalog only edits the text of one global point P (and the
\* relink pass changes no resume and no variant is created), the affected set is
\* exactly the set of resumes whose resolved point list before the edit contained P
\* through a ref without an override for P.
C7_AffectedExactlyResolvers ==
    (/\ last.op = "updateGlobalCatalog"
     /\ OnlyPointTextsEdited(last.oldGlobal, last.newGlobal)
     /\ Cardinality(EditedPointIds(last.oldGlobal, last.newGlobal)) = 1
     /\ last.afterRelink = last.before
     /\ DOMAIN last.afterMatrix = DOMAIN last.before)
      => \A pointId \in EditedPointIds(last.oldGlobal, last.newGlobal) :
            last.affected = {id \in DOMAIN last.before :
                                ResolvesPoint(last.oldGlobal, last.before[id], pointId)}

\* The resumes the relink pass of the last catalog update changed.
RelinkChangedIds == {id \in DOMAIN last.before : last.afterRelink[id] # last.before[id]}

\* The variant resumes the last catalog update created.
NewVariantIds == DOMAIN last.afterMatrix \ DOMAIN last.before

\* C8: the affected set of a catalog update contains every resume the relink pass
\* changed and every variant it created, and it is the set of all resumes when the
\* header, contactVariants or a section list differs between the old and the new
\* catalog, or when no point text differs between them.
C8_AffectedSetCovers ==
    last.op \in {"updateGlobalCatalog", "rollbackLastGlobalCatalogChange"}
      => /\ RelinkChangedIds \subseteq last.affected
         /\ NewVariantIds \subseteq last.affected
         /\ (\/ last.oldGlobal.header # last.newGlobal.header
             \/ last.oldGlobal.contactVariants # last.newGlobal.contactVariants
             \/ last.oldGlobal.sections # last.newGlobal.sections
             \/ last.oldGlobal.points = last.newGlobal.points)
              => last.affected = DOMAIN last.afterMatrix

\* A text edit after which a resume is affected only because the relink pass changed
\* it: it does not resolve the edited point.
C8_Witness ==
    /\ last.op = "updateGlobalCatalog"
    /\ OnlyPointTextsEdited(last.oldGlobal, last.newGlobal)
    /\ \E id \in RelinkChangedIds :
          \A pointId \in EditedPointIds(last.oldGlobal, last.newGlobal) :
              id \notin resumesReferencingGlobalPoint(last.afterMatrix, global, pointId)

(***************************************************************************)
(* The relink pass applied to its own output                               *)
(***************************************************************************)
\* The relink pass run again on what the last catalog update's pass returned: the
\* relinked catalog (which the update stored) and the relinked resumes.
SecondRelinkPass ==
    relinkAllResumesToGlobalPoints(global, last.afterRelink, counters.auto, clock + 1)

RelinkChangedNothing(second, g, rs, drawn) ==
    /\ second.changedResumeIds = {}
    /\ second.drawn = drawn
    /\ second.global.points = g.points
    /\ second.resumes = rs

\* C11: relinkAllResumesToGlobalPoints applied to its own output reports no changed
\* resume, creates no global point, and returns the same catalog points and the same
\* resume documents as the first pass produced.
C11_RelinkIsFixedPoint ==
    last.op \in {"updateGlobalCatalog", "rollbackLastGlobalCatalogChange"}
      => RelinkChangedNothing(SecondRelinkPass, global, last.afterRelink, counters.auto)

\* A first pass that changed a resume and created a global point.
C11_Witness ==
    /\ last.op = "updateGlobalCatalog"
    /\ RelinkChangedIds # {}
    /\ DOMAIN global.points # DOMAIN last.newGlobal.points

(***************************************************************************)
(* What updateResumeDocument and createResume write                        *)
(***************************************************************************)
\* The body of a resume document: what is not its id, variant stamp or timestamps.
BodyOf(doc) == [name |-> doc.name, sections |-> doc.sections, local |-> doc.local]

\* The identity a family member keeps through an update of its family.
StampOf(doc) ==
    [id |-> doc.id, templateId |-> doc.templateId, variantEmail |-> doc.variantEmail,
     variantLocation |-> doc.variantLocation, createdAt |-> doc.createdAt]

FamilyOf(rs, resumeId) == {id \in DOMAIN rs : rs[id].templateId = rs[resumeId].templateId}

\* The stored state (g2, rs2) is (g, rs) with nextResume's body written to `family`.
WroteBodyToFamily(g, rs, g2, rs2, family, nextResume) ==
    /\ g2 = g
    /\ DOMAIN rs2 = DOMAIN rs
    /\ \A id \in family :
          BodyOf(rs2[id]) = BodyOf(nextResume) /\ StampOf(rs2[id]) = StampOf(rs[id])
    /\ \A id \in DOMAIN rs \ family : rs2[id] = rs[id]

WroteBodyToNormalized(normalized, g2, rs2, resumeId, nextResume) ==
    WroteBodyToFamily(normalized.global, normalized.resumes, g2, rs2,
                      FamilyOf(normalized.resumes, resumeId), nextResume)

CreateSource(rs, sourceResumeId) ==
    IF sourceResumeId # NoId /\ Has(rs, sourceResumeId) THEN rs[sourceResumeId]
    ELSE rs[SortBy(ResumeIdOrder, DOMAIN rs)[1]]

\* The declared (email, location) pairs other than the one resume `t` carries.
OtherDeclaredPairs(g, t) ==
    (Range(g.contactVariants.emails) \X Range(g.contactVariants.locations))
       \ {<<t.variantEmail, t.variantLocation>>}

\* `created` is one family of rs2: the template `t` named `name` with the body of
\* `source`, and exactly one variant for each other declared pair.
IsNewFamily(g, rs2, created, t, source, name) ==
    /\ rs2[t].id = t /\ rs2[t].templateId = t
    /\ rs2[t].name = name
    /\ rs2[t].sections = source.sections /\ rs2[t].local = source.local
    /\ \A id \in created : rs2[id].id = id /\ rs2[id].templateId = t
    /\ \A id \in created \ {t} :
          <<rs2[id].variantEmail, rs2[id].variantLocation>> \in OtherDeclaredPairs(g, rs2[t])
    /\ \A pair \in OtherDeclaredPairs(g, rs2[t]) :
          Cardinality({id \in created \ {t} :
                         <<rs2[id].variantEmail, rs2[id].variantLocation>> = pair}) = 1

\* The stored state (g2, rs2) is (g, rs) with one new family added.
AddedOneFamily(g, rs, g2, rs2, source, name) ==
    /\ g2 = g
    /\ DOMAIN rs \subseteq DOMAIN rs2
    /\ \A id \in DOMAIN rs : rs2[id] = rs[id]
    /\ \E t \in DOMAIN rs2 \ DOMAIN rs :
          IsNewFamily(g, rs2, DOMAIN rs2 \ DOMAIN rs, t, source, name)

AddedOneFamilyToNormalized(normalized, g2, rs2, request) ==
    AddedOneFamily(normalized.global, normalized.resumes, g2, rs2,
                   CreateSource(normalized.resumes, request.sourceResumeId), request.name)

ResolveGlobal ==
    [SeedGlobal EXCEPT
       !.points = ("pt_exp_1" :> <<"a">>) @@ ("pt_exp_2" :> <<"b">>) @@ ("pt_exp_3" :> <<"A">>),
       !.sections.experience =
           <<[id |-> "exp_1", title |-> "Company",
              pointIds |-> <<"pt_exp_1", "pt_exp_2", "pt_exp_3">>]>>]

\* pointOverrides of a ref: none, one naming a local point, one naming no point.
OverrideInputs == {EmptyMap, "pt_exp_1" :> "lp_1", "pt_exp_2" :> "lp_gone"}

\* includePointIds of a ref: none, one id, two ids against the source order.
IncludeInputs == {<<>>, <<"pt_exp_2">>, <<"pt_exp_3", "pt_exp_1">>}

\* The refs of the point-bearing section: to an entity that exists or to none.
RefInputs ==
    {Ref(globalId, NoId, pointOverrides, includePointIds) :
        globalId \in {"exp_1", "exp_gone"},
        pointOverrides \in OverrideInputs, includePointIds \in IncludeInputs}
      \cup {Ref(NoId, localId, pointOverrides, includePointIds) :
               localId \in {"lexp_1", "lexp_gone"},
               pointOverrides \in OverrideInputs, includePointIds \in IncludeInputs}

\* The ref lists of the plain section.
EducationRefInputs ==
    {<<>>,
     <<GlobalRef("edu_gone"), GlobalRef("edu_1")>>,
     <<LocalRef("ledu_1"), Ref(NoId, NoId, EmptyMap, <<>>), LocalRef("ledu_gone")>>}

\* The local point pools: one local point, and one more that shadows a global id.
LocalPointInputs ==
    {"lp_1" :> <<"b", " ", "a">>,
     ("lp_1" :> <<"b", " ", "a">>) @@ ("pt_exp_1" :> <<"B">>)}

ResolveResume(experienceRefs, educationRefs, localPoints) ==
    [SeedResume EXCEPT
       !.sections = [education |-> educationRefs, experience |-> experienceRefs],
       !.local = [points |-> localPoints,
                  education |-> <<[id |-> "ledu_1"]>>,
                  experience |-> <<[id |-> "lexp_1", title |-> "Local",
                                    pointIds |-> <<"lp_1", "pt_exp_2", "pt_exp_1">>]>>]]

InitResolve ==
    /\ global = ResolveGlobal
    /\ \E k \in 0..MaxRefs :
         \E experienceRefs \in [1..k -> RefInputs], educationRefs \in EducationRefInputs,
            localPoints \in LocalPointInputs :
             resumes = ("resume_master" :> ResolveResume(experienceRefs, educationRefs, localPoints))
    /\ commits = <<ResolveGlobal>>
    /\ counters = [lp |-> 0, lexp |-> 0, auto |-> 0, resume |-> 0]
    /\ clock = 0
    /\ events = <<>>
    /\ procs = NoProcs
    /\ last = [op |-> "input"]
    /\ tracked = [override |-> NoOverride, detached |-> NoDetached]
    /\ exports = NoExports

\* buildRenderedResumeData reads the catalog and the resume and assigns to neither.
Resolve ==
    /\ last.op = "input"
    /\ last' = [op |-> "buildRenderedResumeData",
                rendered |-> buildRenderedResumeData(global, resumes["resume_master"])]
    /\ UNCHANGED <<global, resumes, commits, counters, clock, events, procs, tracked, exports>>

NextResolve == Resolve

SpecResolve == InitResolve /\ [][NextResolve]_vars

\* The entity a ref names, if any: by its globalId in the catalog's section, else by
\* its localId among the resume's local entities.
SourceOf(globalEntries, localEntries, ref) ==
    IF ref.globalId # NoId THEN SelectSeq(globalEntries, LAMBDA e : e.id = ref.globalId)
    ELSE IF ref.localId # NoId THEN SelectSeq(localEntries, LAMBDA e : e.id = ref.localId)
    ELSE <<>>

\* The refs whose entity exists, in the order of the section.
ResolvableRefs(globalEntries, localEntries, refs) ==
    SelectSeq(refs, LAMBDA ref : SourceOf(globalEntries, localEntries, ref) # <<>>)

\* The source's pointIds the ref retains, in the source's order.
RetainedPointIds(ref, source) ==
    SelectSeq(source.pointIds,
              LAMBDA p : ref.includePointIds = <<>> \/ p \in Range(ref.includePointIds))

\* The retained ids with the overridden ones substituted.
SubstitutedPointIds(ref, retained) ==
    [i \in DOMAIN retained |->
        IF retained[i] \in DOMAIN ref.pointOverrides THEN ref.pointOverrides[retained[i]]
        ELSE retained[i]]

\* The text shown for a resolved id is the local point's when there is one, else the
\* global point's.
ShownTextsRight(rendered, g, doc, pointIds) ==
    \A i \in DOMAIN pointIds :
        IF pointIds[i] \in DOMAIN doc.local.points
        THEN rendered.points[pointIds[i]] = doc.local.points[pointIds[i]]
        ELSE pointIds[i] \in DOMAIN g.points
               => rendered.points[pointIds[i]] = g.points[pointIds[i]]

ResolvedPointsRight(rendered, g, doc, resolvable) ==
    \A k \in DOMAIN resolvable \cap DOMAIN rendered.sections.experience :
        /\ rendered.sections.experience[k].pointIds =
             SubstitutedPointIds(
                 resolvable[k],
                 RetainedPointIds(resolvable[k],
                                  SourceOf(g.sections.experience, doc.local.experience,
                                           resolvable[k])[1]))
        /\ ShownTextsRight(rendered, g, doc, rendered.sections.experience[k].pointIds)

\* C9: for every ref of the point-bearing section whose entity exists, the resolved
\* pointIds are the entity's pointIds, restricted to includePointIds when that list is
\* not empty (in the entity's order), each retained id replaced by its override when
\* it has one; the text of a resolved id is the local point's when the resume has one
\* of that id, else the global point's.
C9_ResolvedPointIds ==
    last.op = "buildRenderedResumeData"
      => ResolvedPointsRight(last.rendered, global, resumes["resume_master"],
                             ResolvableRefs(global.sections.experience,
                                            resumes["resume_master"].local.experience,
                                            resumes["resume_master"].sections.experience))

\* A ref that retains two points against the order of its includePointIds, one of
\* them overridden by a local point.
C9_Witness ==
    /\ last.op = "buildRenderedResumeData"
    /\ \E k \in DOMAIN resumes["resume_master"].sections.experience :
          /\ resumes["resume_master"].sections.experience[k] =
               Ref("exp_1", NoId, "pt_exp_1" :> "lp_1", <<"pt_exp_3", "pt_exp_1">>)
          /\ k \in DOMAIN last.rendered.sections.experience
          /\ last.rendered.sections.experience[k].pointIds = <<"lp_1", "pt_exp_3">>
          /\ last.rendered.points["lp_1"] = <<"b", " ", "a">>

\* The ids of the entities of a list.
IdsOf(entries) == [k \in DOMAIN entries |-> entries[k].id]

\* The ids of the entities the resolvable refs name, in order.
SourceIdsOf(globalEntries, localEntries, resolvable) ==
    [k \in DOMAIN resolvable |-> SourceOf(globalEntries, localEntries, resolvable[k])[1].id]

\* C10: resolution yields a result whatever refs dangle: a ref whose globalId or
\* localId names no entity contributes no entry, and the other refs of the section
\* are resolved in the order of the section.
C10_DanglingRefsSkipped ==
    last.op = "buildRenderedResumeData"
      => /\ IdsOf(last.rendered.sections.experience) =
              SourceIdsOf(global.sections.experience,
                          resumes["resume_master"].local.experience,
                          ResolvableRefs(global.sections.experience,
                                         resumes["resume_master"].local.experience,
                                         resumes["resume_master"].sections.experience))
         /\ IdsOf(last.rendered.sections.education) =
              SourceIdsOf(global.sections.education,
                          resumes["resume_master"].local.education,
                          ResolvableRefs(global.sections.education,
                                         resumes["resume_master"].local.education,
                                         resumes["resume_master"].sections.education))

\* A dangling global ref followed by a local ref: one entry, the local one.
C10_Witness ==
    /\ last.op = "buildRenderedResumeData"
    /\ Len(resumes["resume_master"].sections.experience) = 2
    /\ resumes["resume_master"].sections.experience[1].globalId = "exp_gone"
    /\ resumes["resume_master"].sections.experience[2].localId = "lexp_1"
    /\ IdsOf(last.rendered.sections.experience) = <<"lexp_1">>
    /\ IdsOf(last.rendered.sections.education) = <<"edu_1">>

(***************************************************************************)
(* The mutations followed step by step: each await that reads or writes    *)
(* the store is a step, a step may throw, and two requests may be in       *)
(* flight at once (the router starts a handler per request, with no lock)  *)
(***************************************************************************)
\* The point-bearing sections overridePointForResume accepts.
OverridableSections == {"experience"}

SectionAccepted_AnyKnownSection(section) == section \in {"education", "experience"}

\* ensureSectionKey, then the test that the section carries points.
SectionAccepted(section) ==
    section \in {"education", "experience"} /\ section \in OverridableSections

\* The catalogs the requests of the stepwise runs carry.
StepCatalogInputs(g) ==
    {patchPoint(g, pointId, <<"A">>) : pointId \in DOMAIN g.points}
      \cup {toggleLocation(g, "l2")}

\* The drafts the requests of the stepwise runs carry: a point removed from a ref.
StepDrafts(g, doc) ==
    UNION {{removePointFromRef(doc, g, i, pointId) :
               pointId \in RefSourcePointIds(g, doc, doc.sections.experience[i])} :
           i \in DOMAIN doc.sections.experience}

StepOverrideRequests(g, rs) ==
    {[op |-> "overridePointForResume", section |-> section, resumeId |-> resumeId,
      refId |-> refId, pointId |-> "pt_exp_1", text |-> <<"A">>] :
        section \in {"experience", "education", "unknown"},
        resumeId \in DOMAIN rs \cup {"resume_unknown"},
        refId \in {"exp_1", "ref_unknown"}}

\* The requests a client may send, given the state it was shown.
StepRequests(g, rs) ==
    {[op |-> "updateGlobalCatalog", nextGlobal |-> nextGlobal] :
        nextGlobal \in StepCatalogInputs(g)}
      \cup UNION {{[op |-> "updateResumeDocument", resumeId |-> resumeId,
                    nextResume |-> nextResume] : nextResume \in StepDrafts(g, rs[resumeId])} :
                  resumeId \in DOMAIN rs}
      \cup {[op |-> "updateResumeDocument", resumeId |-> "resume_unknown",
             nextResume |-> SeedResume]}
      \cup StepOverrideRequests(g, rs)
      \cup {[op |-> "compileResumeById", resumeId |-> resumeId] :
                resumeId \in DOMAIN rs \cup {"resume_unknown"}}
      \cup {[op |-> "createResume", name |-> "New Resume", sourceResumeId |-> NoId]}

\* What a handler holds in memory once it has read and normalized the store: the
\* outcome so far, the catalog it will save (none: <<>>), the documents it will save
\* before compiling, the documents it will compile and save, and whether it ends with
\* getResumeDetail.
StepPlan(outcome, globalToSave, docs, saveIds, compileIds, detail, cnt) ==
    [outcome |-> outcome, global |-> globalToSave, docs |-> docs, saveIds |-> saveIds,
     compileIds |-> compileIds, detail |-> detail, counters |-> cnt]

NoPlan(outcome, cnt) == StepPlan(outcome, <<>>, EmptyMap, {}, {}, FALSE, cnt)

\* updateGlobalCatalog up to saveGlobal: `r` is what the handler computed.
PlanOfCatalogUpdate(r) ==
    StepPlan("ok", <<r.global>>, r.afterMatrix, {}, r.affected, FALSE, r.counters)

\* updateResumeDocument up to saveResumes(updatedFamily).
PlanOfFamily(normalized, family, nextResume, cnt, now) ==
    StepPlan("ok", <<>>, UpdatedFamily(normalized.resumes, family, nextResume, now),
             family, family, TRUE, cnt)

PlanOfResumeUpdate(normalized, resumeId, nextResume, cnt, now) ==
    IF ~Has(normalized.resumes, resumeId) THEN NoPlan("notFound", cnt)
    ELSE PlanOfFamily(normalized, FamilyOf(normalized.resumes, resumeId), nextResume, cnt, now)

\* compileResumeById up to its compileAndUpdateResumes: null when the resume is not
\* stored, else the stored document is compiled.
PlanOfCompileById(normalized, resumeId, cnt) ==
    IF ~Has(normalized.resumes, resumeId) THEN NoPlan("notFound", cnt)
    ELSE StepPlan("ok", <<>>, normalized.resumes, {}, {resumeId}, TRUE, cnt)

\* createResume up to saveResumes(createdFamily).
PlanOfCreated(matrix, templateId, cnt) ==
    StepPlan("ok", <<>>, matrix.resumes,
             {id \in DOMAIN matrix.resumes : matrix.resumes[id].templateId = templateId},
             {id \in DOMAIN matrix.resumes : matrix.resumes[id].templateId = templateId},
             TRUE, [cnt EXCEPT !.resume = matrix.drawn])

PlanOfCreate(normalized, order, base, templateId, name, cnt, now) ==
    PlanOfCreated(ensureVariantResumeMatrix(
                      normalized.global,
                      Put(normalized.resumes, templateId,
                          TemplateResume(base, normalized.global, templateId, name, now)),
                      Append(order, templateId), {templateId}, cnt.resume + 1, now),
                  templateId, cnt)

\* The plan of the handler of `request`, from the normalized store.
PlanOf(request, normalized, cnt, now) ==
    IF request.op = "updateGlobalCatalog"
    THEN PlanOfCatalogUpdate(UpdateNormalized(normalized,
                                              normalizeGlobalCatalog(request.nextGlobal),
                                              cnt, now))
    ELSE IF request.op = "updateResumeDocument"
    THEN PlanOfResumeUpdate(normalized, request.resumeId, request.nextResume, cnt, now)
    ELSE IF request.op = "compileResumeById"
    THEN PlanOfCompileById(normalized, request.resumeId, cnt)
    ELSE PlanOfCreate(normalized, SortBy(ResumeIdOrder, DOMAIN normalized.resumes),
                      CreateSource(normalized.resumes, request.sourceResumeId),
                      ResumeIdPool[cnt.resume + 1], request.name, cnt, now)

\* A request in flight: where its handler is (pc), what the client sent (request), the
\* handler invocation being executed (call), its timestamp, and what it holds in memory
\* (plan, results); `start` is the store as it was when the request arrived and
\* `outcome` what the caller is told ("pending" until then).
Running(pc, request, call, now, start, plan, results, outcome) ==
    [pc |-> pc, request |-> request, call |-> call, now |-> now, start |-> start,
     plan |-> plan, results |-> results, outcome |-> outcome]

Moved(proc, pc) == [proc EXCEPT !.pc = pc]

Ended(proc, outcome) == [proc EXCEPT !.pc = "done", !.outcome = outcome]

\* The handler is entered: overridePointForResume checks the section before anything
\* else and throws on one it does not accept.
Entered(request, now, start) ==
    IF request.op = "overridePointForResume"
    THEN IF SectionAccepted(request.section)
         THEN Running("lookup", request, request, now, start, <<>>, EmptyMap, "pending")
         ELSE Running("done", request, request, now, start, <<>>, EmptyMap, "error")
    ELSE Running("normalize", request, request, now, start, <<>>, EmptyMap, "pending")

Start(p) ==
    /\ procs[p].pc = "idle"
    /\ \E request \in StepRequests(global, resumes) :
          procs' = [procs EXCEPT ![p] =
                       Entered(request, clock + 1,
                               [global |-> global, resumes |-> resumes, events |-> events])]
    /\ clock' = clock + 1
    /\ UNCHANGED <<global, resumes, commits, counters, events, last, tracked, exports>>

\* overridePointForResume after its normalizeStoredState: null when the resume is not
\* stored, a throw when no ref has the id, else the call of updateResumeDocument.
LookedUp(proc, normalized, at, lp) ==
    IF ~Has(normalized.resumes, proc.request.resumeId) THEN Ended(proc, "notFound")
    ELSE IF at = 0 THEN Ended(proc, "error")
    ELSE [proc EXCEPT
            !.pc = "normalize",
            !.call = [op |-> "updateResumeDocument", resumeId |-> proc.request.resumeId,
                      nextResume |-> WithOverride(normalized.resumes[proc.request.resumeId],
                                                  at, proc.request.pointId,
                                                  LocalPointIdPool[lp + 1],
                                                  proc.request.text)]]

LookupIn(p, normalized) ==
    /\ global' = normalized.global
    /\ resumes' = normalized.resumes
    /\ procs' = [procs EXCEPT ![p] =
                    LookedUp(procs[p], normalized,
                             IF Has(normalized.resumes, procs[p].request.resumeId)
                             THEN FindRef(normalized.resumes[procs[p].request.resumeId]
                                              .sections.experience,
                                          procs[p].request.refId)
                             ELSE 0,
                             counters.lp)]
    /\ counters' = [counters EXCEPT !.lp = @ + 1]
    /\ UNCHANGED <<commits, clock, events, last, tracked, exports>>

Lookup(p) ==
    /\ procs[p].pc = "lookup"
    /\ LookupIn(p, normalizeStoredState(global, resumes))

\* The handler's normalizeStoredState and what it computes from it in memory.
Planned(proc, plan) ==
    IF plan.outcome = "ok" THEN [proc EXCEPT !.pc = "save", !.plan = plan]
    ELSE Ended(proc, plan.outcome)

NormalizeIn(p, normalized, plan) ==
    /\ global' = normalized.global
    /\ resumes' = normalized.resumes
    /\ counters' = plan.counters
    /\ procs' = [procs EXCEPT ![p] = Planned(procs[p], plan)]
    /\ UNCHANGED <<commits, clock, events, last, tracked, exports>>

NormalizeFrom(p, normalized) ==
    NormalizeIn(p, normalized, PlanOf(procs[p].call, normalized, counters, procs[p].now))

Normalize(p) ==
    /\ procs[p].pc = "normalize"
    /\ NormalizeFrom(p, normalizeStoredState(global, resumes))

\* saveGlobal(normalizedGlobal) of updateGlobalCatalog; saveResumes(updatedFamily) of
\* updateResumeDocument; saveResumes(createdFamily) of createResume.
Save(p) ==
    /\ procs[p].pc = "save"
    /\ global' = IF procs[p].plan.global = <<>> THEN global ELSE procs[p].plan.global[1]
    /\ resumes' = Overlay(resumes, [id \in procs[p].plan.saveIds |-> procs[p].plan.docs[id]])
    /\ procs' = [procs EXCEPT ![p] = Moved(procs[p], "compile")]
    /\ UNCHANGED <<commits, counters, clock, events, last, tracked, exports>>

\* compileAndUpdateResumes on the documents the handler holds; each compile gives its
\* own result.
Compile(p) ==
    /\ procs[p].pc = "compile"
    /\ \E results \in [procs[p].plan.compileIds -> CompileResults] :
          /\ resumes' = Overlay(resumes,
                                compileAndUpdateResumes(procs[p].plan.docs,
                                                        procs[p].plan.compileIds,
                                                        results, procs[p].now))
          /\ procs' = [procs EXCEPT ![p] = [Moved(procs[p], "commit") EXCEPT
                                               !.results = results]]
    /\ UNCHANGED <<global, commits, counters, clock, events, last, tracked, exports>>

\* recordCommitEvent: commitAll commits the files as they are, then the event is saved.
Commit(p) ==
    /\ procs[p].pc = "commit"
    /\ commits' = Committed(commits, global)
    /\ events' = recordCommitEvent(events, procs[p].plan.compileIds)
    /\ procs' = [procs EXCEPT ![p] =
                    IF procs[p].plan.detail THEN Moved(procs[p], "detail")
                    ELSE Ended(procs[p], "ok")]
    /\ UNCHANGED <<global, resumes, counters, clock, last, tracked, exports>>

DetailIn(p, normalized) ==
    /\ global' = normalized.global
    /\ resumes' = normalized.resumes
    /\ procs' = [procs EXCEPT ![p] = Ended(procs[p], "ok")]
    /\ UNCHANGED <<commits, counters, clock, events, last, tracked, exports>>

\* The trailing getResumeDetail of a resume operation.
Detail(p) ==
    /\ procs[p].pc = "detail"
    /\ DetailIn(p, normalizeStoredState(global, resumes))

\* The step the handler is at throws (a write to disk, the compiler's set-up, git):
\* the handler ends there, and nothing it wrote before is taken back.
Fail(p) ==
    /\ procs[p].pc \in {"lookup", "normalize", "save", "compile", "commit", "detail"}
    /\ procs' = [procs EXCEPT ![p] = [procs[p] EXCEPT !.pc = "failed", !.outcome = "error"]]
    /\ UNCHANGED <<global, resumes, commits, counters, clock, events, last, tracked, exports>>

NextSteps ==
    \E p \in Procs :
        \/ Start(p)
        \/ Lookup(p)
        \/ Normalize(p)
        \/ Save(p)
        \/ Compile(p)
        \/ Commit(p)
        \/ Detail(p)
        \/ Fail(p)

SpecSteps == Init /\ [][NextSteps]_vars

(***************************************************************************)
(* Claims about failing, concurrent and rejected requests                  *)
(***************************************************************************)
\* Request p is the only one that has arrived.
RunsAlone(p) == \A q \in Procs \ {p} : procs[q].pc = "idle"

\* C14: if a mutation fails at any step after it has started, the persisted catalog
\* and all persisted resume documents equal their values before the mutation started.
C14_FailedMutationLeavesStore ==
    \A p \in Procs :
        (procs[p].pc = "failed" /\ RunsAlone(p))
          => (global = procs[p].start.global /\ resumes = procs[p].start.resumes)

\* A document without its timestamps and compile results.
Essence(doc) ==
    [doc EXCEPT !.createdAt = 0, !.updatedAt = 0, !.lastCompiledAt = 0,
                !.lastCompileStatus = "none", !.lastCompileMessage = <<>>]

\* A store without its timestamps and compile results, which depend on when and how
\* the compiler ran and not on the order of the mutations.
EssenceOf(g, rs) ==
    [global |-> [g EXCEPT !.updatedAt = 0],
     resumes |-> [id \in DOMAIN rs |-> Essence(rs[id])]]

StoreOf(r) == [global |-> r.global, resumes |-> r.resumes]

\* The store after the handler of `call` ran alone, from its start to its end, on the
\* store `st`, drawing ids from the counters `cnt`.
RanAlone(call, st, cnt, now) ==
    IF call.op = "updateGlobalCatalog"
    THEN StoreOf(updateGlobalCatalog(st.global, st.resumes, cnt, call.nextGlobal, now))
    ELSE IF call.op = "updateResumeDocument"
    THEN StoreOf(updateResumeDocument(st.global, st.resumes, call.resumeId,
                                      call.nextResume, now))
    ELSE IF call.op = "compileResumeById"
    THEN StoreOf(normalizeStoredState(st.global, st.resumes))
    ELSE StoreOf(createResume(st.global, st.resumes, call.name, call.sourceResumeId,
                              cnt.resume, now))

\* The store after request a, then request b, each run alone.
RanInOrder(a, b, st, cnt) ==
    RanAlone(b.call, RanAlone(a.call, st, cnt, a.now), cnt, b.now)

EssenceOfStore(st) == EssenceOf(st.global, st.resumes)

\* Both requests were accepted and ran to their end, and neither drew an id: the
\* outcome of running them one after the other does not depend on which ids are free.
BothCompleted ==
    /\ \A p \in Procs : procs[p].pc = "done" /\ procs[p].outcome = "ok"
    /\ counters = [lp |-> 0, lexp |-> 0, auto |-> 0, resume |-> 0]

\* The store as it was when the first of the requests arrived.
FirstStart ==
    procs[CHOOSE p \in Procs : \A q \in Procs : procs[p].now <= procs[q].now].start

\* C15: when two mutations are requested concurrently, their steps do not interleave:
\* the final persisted catalog and resumes equal the result of running the two
\* mutations one after the other in some order, so neither update is lost.
C15_ConcurrentMutationsSerialize ==
    BothCompleted
      => \E a \in Procs : \E b \in Procs \ {a} :
            EssenceOf(global, resumes)
              = EssenceOfStore(RanInOrder(procs[a], procs[b], FirstStart, counters))

\* The batch request p compiled: at the step after its compileAndUpdateResumes.
Compiled(p) == procs[p].pc = "commit"

\* The status compileAndUpdateResumes records for a compile result.
StatusOf(result) == IF result.ok THEN "success" ELSE "failed"

\* C16: in a batch compile every resume of the batch is compiled and gets
\* lastCompileStatus 'success' or 'failed' by its own compile result; a failed compile
\* neither stops the batch nor changes the status of another resume, and an export
\* failure after a successful compile leaves the status 'success'.
C16_BatchCompileIsPerResume ==
    [][\A p \in Procs :
          (procs[p].pc = "compile" /\ procs'[p].pc = "commit")
            => /\ DOMAIN procs'[p].results = procs[p].plan.compileIds
               /\ \A id \in procs[p].plan.compileIds :
                     /\ Has(resumes', id)
                     /\ resumes'[id].lastCompiledAt = procs[p].now
                     /\ resumes'[id].lastCompileStatus = StatusOf(procs'[p].results[id])
                     /\ (procs'[p].results[id].exported = "failed"
                           => resumes'[id].lastCompileStatus = "success")]_vars

\* A batch of two whose first compile failed and whose second compiled but could not be
\* exported: the statuses recorded are 'failed' and 'success'.
C16_Witness ==
    \E p \in Procs :
        /\ Compiled(p)
        /\ \E a \in procs[p].plan.compileIds : \E b \in procs[p].plan.compileIds \ {a} :
              /\ ~procs[p].results[a].ok
              /\ procs[p].results[b].exported = "failed"
              /\ resumes[a].lastCompileStatus = "failed"
              /\ resumes[b].lastCompileStatus = "success"

\* Request p is a completed mutation: its handler returned its result.
Completed(p) == procs[p].pc = "done" /\ procs[p].outcome = "ok"

\* Request p is in its handler and has not reached recordCommitEvent.
BeforeCommit(p) == procs[p].pc \in {"lookup", "normalize", "save", "compile", "commit"}

\* The commit event of the resumes request p compiled.
EventOf(p) == [affectedResumes |-> DOMAIN procs[p].results]

\* C17: every completed mutation records exactly one commit event, after its
\* persistence and compile steps, whose affectedResumes is exactly the set of resumes
\* the mutation compiled, also when every one of those compiles failed.
C17_OneCommitEventPerMutation ==
    /\ \A p \in Procs :
          /\ (BeforeCommit(p) /\ RunsAlone(p)) => events = procs[p].start.events
          /\ (Completed(p) /\ RunsAlone(p)) => events = <<EventOf(p)>>
          /\ Completed(p) => \E i \in 1..Len(events) : events[i] = EventOf(p)
    /\ (\A p \in Procs : procs[p].pc \in {"idle", "done"})
          => Len(events) = Cardinality({p \in Procs : Completed(p)})

\* A mutation completed although every one of its compiles failed, and its event names
\* the resumes it compiled.
C17_Witness ==
    \E p \in Procs :
        /\ Completed(p)
        /\ RunsAlone(p)
        /\ DOMAIN procs[p].results # {}
        /\ \A id \in DOMAIN procs[p].results :
              ~procs[p].results[id].ok /\ resumes[id].lastCompileStatus = "failed"
        /\ events = <<EventOf(p)>>

\* Request p names a resume that is not stored, or, for overridePointForResume on an
\* accepted section of a stored resume, a ref the section does not have.
NamesNothingStored(request, rs) ==
    /\ request.op \in {"updateResumeDocument", "overridePointForResume", "compileResumeById"}
    /\ (request.op = "overridePointForResume" => SectionAccepted(request.section))
    /\ \/ ~Has(rs, request.resumeId)
       \/ /\ request.op = "overridePointForResume"
          /\ FindRef(rs[request.resumeId].sections.experience, request.refId) = 0

\* C18: updateResumeDocument, overridePointForResume and compileResumeById given a
\* resume id that names no stored resume, and overridePointForResume given a refId that
\* names no ref of the section, report not-found to the caller and leave the persisted
\* catalog, every persisted resume and the commit events unchanged.
C18_NotFoundIsReported ==
    \A p \in Procs :
        (procs[p].pc = "done" /\ RunsAlone(p)
           /\ NamesNothingStored(procs[p].request, procs[p].start.resumes))
          => /\ procs[p].outcome = "notFound"
             /\ global = procs[p].start.global
             /\ resumes = procs[p].start.resumes
             /\ events = procs[p].start.events

\* Request p is an overridePointForResume on a section the handler does not accept.
OverridesBadSection(p) ==
    /\ procs[p].pc # "idle"
    /\ procs[p].request.op = "overridePointForResume"
    /\ procs[p].request.section \notin OverridableSections

\* C19: overridePointForResume called with an unknown section key, or with a section
\* that carries no points, is rejected with an error before any stored state is read,
\* normalized or written, so the persisted catalog and resumes are unchanged.
C19_BadSectionRejectedFirst ==
    \A p \in Procs :
        OverridesBadSection(p)
          => /\ procs[p].pc = "done"
             /\ procs[p].outcome = "error"
             /\ procs[p].plan = <<>>
             /\ RunsAlone(p)
                  => /\ global = procs[p].start.global
                     /\ resumes = procs[p].start.resumes
                     /\ events = procs[p].start.events

\* An override of an education ref and one of an unknown section, both rejected.
C19_Witness ==
    \E p \in Procs : \E q \in Procs \ {p} :
        /\ OverridesBadSection(p) /\ procs[p].request.section = "education"
        /\ OverridesBadSection(q) /\ procs[q].request.section = "unknown"
        /\ procs[p].outcome = "error" /\ procs[q].outcome = "error"
        /\ global = procs[p].start.global /\ resumes = procs[p].start.resumes

(***************************************************************************)
(* Relink by text diff (the catalog update that matches old point texts)   *)
(***************************************************************************)
\* normalizePointText(points[pointId]?.text): a missing point reads as the empty text.
TextAt(points, pointId) ==
    IF Has(points, pointId) THEN normalizePointText(points[pointId]) ELSE <<>>

\* The test both loops of buildRelinkTextIndex make before they look at a changed id.
Indexed(oldText, nextText) == oldText # <<>> /\ nextText # <<>> /\ oldText # nextText

\* The changed ids the loops look at whose old text is `text`.
IndexedWithOldText(oldPoints, nextPoints, changedPointIds, text) ==
    {pointId \in changedPointIds :
        /\ Indexed(TextAt(oldPoints, pointId), TextAt(nextPoints, pointId))
        /\ TextAt(oldPoints, pointId) = text}

\* buildRelinkTextIndex: old text -> id, for the old texts counted exactly once.
buildRelinkTextIndex(oldGlobal, nextGlobal, changedPointIds) ==
    [text \in {TextAt(oldGlobal.points, pointId) : pointId \in
                  {id \in changedPointIds :
                      Cardinality(IndexedWithOldText(oldGlobal.points, nextGlobal.points,
                                                     changedPointIds,
                                                     TextAt(oldGlobal.points, id))) = 1}}
       |-> CHOOSE pointId \in IndexedWithOldText(oldGlobal.points, nextGlobal.points,
                                                 changedPointIds, text) : TRUE]

\* mappedPointId of replacePointIds: the index's id for the text of a local point.
MappedPointId(points, index, pointId) ==
    IF Has(points, pointId) /\ Has(index, normalizePointText(points[pointId]))
       /\ index[normalizePointText(points[pointId])] # pointId
    THEN index[normalizePointText(points[pointId])]
    ELSE pointId

\* replacePointIds of relinkLocalPointsToGlobalByText: map each id, keep the first of
\* equal ids.
replacePointIdsByText(points, index, pointIds) ==
    LET F[i \in 0..Len(pointIds)] ==
            IF i = 0 THEN <<>>
            ELSE IF MappedPointId(points, index, pointIds[i]) \in Range(F[i-1]) THEN F[i-1]
                 ELSE Append(F[i-1], MappedPointId(points, index, pointIds[i]))
    IN F[Len(pointIds)]

\* The body of the loop over the refs, for the ref at `i` whose local entry is at `at`
\* (0: the ref has no localId, or no entry has it).
RelinkRefByText(doc, index, i, at) ==
    IF at = 0 THEN doc
    ELSE [doc EXCEPT
            !.local.experience[at].pointIds =
                replacePointIdsByText(doc.local.points, index, @),
            !.sections.experience[i].includePointIds =
                replacePointIdsByText(doc.local.points, index, @)]

RelinkRefsByText(doc, index) ==
    LET F[i \in 0..Len(doc.sections.experience)] ==
            IF i = 0 THEN doc
            ELSE RelinkRefByText(F[i-1], index, i,
                                 IF F[i-1].sections.experience[i].localId = NoId THEN 0
                                 ELSE LastIndexWithId(F[i-1].local.experience,
                                                      F[i-1].sections.experience[i].localId))
    IN F[Len(doc.sections.experience)]

\* collectUsedLocalPointIds of the text relink: the local points listed by a referenced
\* local entry or by the includePointIds of its ref.
UsedByRefByText(ref, entries, at) ==
    IF ref.localId = NoId \/ at = 0 THEN {}
    ELSE Range(entries[at].pointIds) \cup Range(ref.includePointIds)

collectUsedLocalPointIdsByText(resume) ==
    {pointId \in UNION {UsedByRefByText(resume.sections.experience[i],
                                        resume.local.experience,
                                        LastIndexWithId(resume.local.experience,
                                                        resume.sections.experience[i].localId)) :
                           i \in DOMAIN resume.sections.experience} :
        Has(resume.local.points, pointId)}

\* The closing loop: the local points no longer used are deleted.
DeleteUnusedByText(doc, used) ==
    [doc EXCEPT !.local.points = [pointId \in DOMAIN @ \cap used |-> @[pointId]]]

DeleteUnusedAfterRelink(doc) == DeleteUnusedByText(doc, collectUsedLocalPointIdsByText(doc))

relinkLocalPointsToGlobalByText(resume, relinkTextIndex) ==
    IF DOMAIN relinkTextIndex = {} THEN resume
    ELSE DeleteUnusedAfterRelink(RelinkRefsByText(resume, relinkTextIndex))

\* The old catalogs of the runs: two points with their texts.
OldTextInputs == {<<"a">>, <<"b">>, <<"a", " ">>}

\* The texts of the new catalogs; a point may also be missing from the new catalog.
NextTextInputs == {<<"a">>, <<"b">>, <<"A">>, <<" ">>}

CatalogWithPoints(points) == [SeedGlobal EXCEPT !.points = points]

OldCatalogInputs ==
    {CatalogWithPoints(("pt_exp_1" :> t1) @@ ("pt_exp_2" :> t2)) :
        t1 \in OldTextInputs, t2 \in OldTextInputs}

NextCatalogInputs ==
    {CatalogWithPoints([pointId \in kept |-> texts[pointId]]) :
        kept \in SUBSET {"pt_exp_1", "pt_exp_2"},
        texts \in [{"pt_exp_1", "pt_exp_2"} -> NextTextInputs]}

\* The resumes of the runs: a referenced local entity listing local points and a global
\* point, with the texts of the local points drawn.
RelinkResumeInputs ==
    {[SeedResume EXCEPT
        !.sections.experience = <<GlobalRef("exp_1"),
                                  Ref(NoId, "lexp_1", EmptyMap, includePointIds)>>,
        !.local = [points |-> ("lp_1" :> t1) @@ ("lp_2" :> t2) @@ ("lp_3" :> <<"b">>),
                   education |-> <<>>,
                   experience |-> <<[id |-> "lexp_1", title |-> "Local",
                                     pointIds |-> pointIds]>>]] :
        t1 \in {<<"a">>, <<" ", "a">>, <<"b">>}, t2 \in {<<"a">>, <<"A">>},
        pointIds \in {<<"lp_1", "lp_2">>, <<"lp_1", "pt_exp_1">>},
        includePointIds \in {<<>>, <<"lp_2">>}}

InitRelink ==
    /\ global \in OldCatalogInputs
    /\ \E doc \in RelinkResumeInputs : resumes = ("resume_master" :> doc)
    /\ \E nextGlobal \in NextCatalogInputs : last = [op |-> "input", nextGlobal |-> nextGlobal]
    /\ commits = <<>>
    /\ counters = [lp |-> 0, lexp |-> 0, auto |-> 0, resume |-> 0]
    /\ clock = 0
    /\ events = <<>>
    /\ procs = NoProcs
    /\ tracked = [override |-> NoOverride, detached |-> NoDetached]
    /\ exports = NoExports

\* What the relink of one resume gave: the index, what each local point was mapped to,
\* and the resume returned with its `changed` flag.
RelinkedByText(before, nextGlobal, changedPointIds, index, after) ==
    [op |-> "relinkLocalPointsToGlobalByText", nextGlobal |-> nextGlobal,
     changedPointIds |-> changedPointIds, index |-> index,
     mapped |-> [pointId \in DOMAIN before.local.points |->
                    MappedPointId(before.local.points, index, pointId)],
     resume |-> after, changed |-> after # before]

RelinkWith(before, nextGlobal, changedPointIds, index) ==
    last' = RelinkedByText(before, nextGlobal, changedPointIds, index,
                           relinkLocalPointsToGlobalByText(before, index))

\* The catalog update's relink of the stored resume: index the changed points, relink.
RelinkByText ==
    /\ last.op = "input"
    /\ RelinkWith(resumes["resume_master"], last.nextGlobal,
                  diffGlobalPoints(global, last.nextGlobal),
                  buildRelinkTextIndex(global, last.nextGlobal,
                                       diffGlobalPoints(global, last.nextGlobal)))
    /\ UNCHANGED <<global, resumes, commits, counters, clock, events, procs, tracked, exports>>

NextRelink == RelinkByText

SpecRelink == InitRelink /\ [][NextRelink]_vars

\* The local points of the stored resume the relink rewrote to global point `target`.
RelinkedTo(target) ==
    {pointId \in DOMAIN last.mapped :
        last.mapped[pointId] = target /\ target # pointId
          /\ pointId \in UNION {Range(e.pointIds) \cup Range(r.includePointIds) :
                                  e \in Range(resumes["resume_master"].local.experience),
                                  r \in Range(resumes["resume_master"].sections.experience)}}

\* The changed global points whose old normalized text is `text`.
ChangedWithOldText(text) ==
    {pointId \in last.changedPointIds :
        Has(global.points, pointId) /\ normalizePointText(global.points[pointId]) = text}

LocalTextOf(pointId) == normalizePointText(resumes["resume_master"].local.points[pointId])

\* C20: in relink-by-text-diff a local point is relinked to a changed global point G
\* only when its normalized text equals G's old normalized text and G is the only
\* changed point with that old text; when two or more changed global points had the
\* same old normalized text, no local point with that text is relinked to any of them.
C20_AmbiguousOldTextSkipped ==
    last.op = "relinkLocalPointsToGlobalByText"
      => \A target \in DOMAIN global.points \cup DOMAIN last.nextGlobal.points :
            \A pointId \in RelinkedTo(target) :
                ChangedWithOldText(LocalTextOf(pointId)) = {target}

(***************************************************************************)
(* Claims about the relink pass and the normalization of the stored state  *)
(***************************************************************************)
\* The indexes of the local entries of `doc` that a ref of `doc` names.
ReferencedEntryIndexes(doc) ==
    {LastIndexWithId(doc.local.experience, doc.sections.experience[i].localId) :
        i \in {j \in DOMAIN doc.sections.experience :
                  doc.sections.experience[j].localId # NoId}} \ {0}

\* The points of catalog `g` whose match key is `key`.
PointsWithKey(g, key) == {id \in DOMAIN g.points : buildPointMatchKey(g.points[id]) = key}

\* The local point with text `text` and a non-empty key, listed in `listBefore`, was
\* replaced in `listAfter` by a point of the relinked catalog `g` with the same key: one
\* of `newGlobal` when it has one, else a created pt_auto point carrying the text.
ReplacedByMatch(pointId, text, listAfter, docAfter, newGlobal, g) ==
    /\ pointId \notin Range(listAfter)
    /\ \E target \in Range(listAfter) \cap PointsWithKey(g, buildPointMatchKey(text)) :
          IF PointsWithKey(newGlobal, buildPointMatchKey(text)) # {}
          THEN target \in DOMAIN newGlobal.points
          ELSE /\ IsAutoId(target)
               /\ target \notin DOMAIN newGlobal.points
               /\ g.points[target] = text

\* The local point with an empty key was left where it was.
LeftInPlace(pointId, text, listAfter, docAfter) ==
    /\ pointId \in Range(listAfter)
    /\ Has(docAfter.local.points, pointId)
    /\ docAfter.local.points[pointId] = text

RelinkedEntryRight(docBefore, docAfter, at, newGlobal, g) ==
    \A pointId \in Range(docBefore.local.experience[at].pointIds)
                     \cap DOMAIN docBefore.local.points :
        IF buildPointMatchKey(docBefore.local.points[pointId]) = <<>>
        THEN LeftInPlace(pointId, docBefore.local.points[pointId],
                         docAfter.local.experience[at].pointIds, docAfter)
        ELSE ReplacedByMatch(pointId, docBefore.local.points[pointId],
                             docAfter.local.experience[at].pointIds, docAfter, newGlobal, g)

\* C21: in the relink pass of updateGlobalCatalog each local point with a non-empty
\* match key listed in a referenced local entity is replaced by a global point with the
\* identical key: an existing one when the new catalog has one, otherwise a newly
\* created pt_auto point whose id is new and whose text is the local text; local points
\* with an empty or whitespace-only text are left in place; the text of every global
\* point already in the new catalog is unchanged.
C21_RelinkReplacesByKey ==
    last.op = "updateGlobalCatalog"
      => /\ \A id \in DOMAIN last.before :
               \A at \in ReferencedEntryIndexes(last.before[id]) :
                   RelinkedEntryRight(last.before[id], last.afterRelink[id], at,
                                      last.newGlobal, global)
         /\ \A pointId \in DOMAIN last.newGlobal.points :
               Has(global.points, pointId)
                 /\ global.points[pointId] = last.newGlobal.points[pointId]

\* The similarity of two points of catalog `g`.
SimilarityIn(g, a, b) ==
    jaccardSimilarity(pointTextTokens(g.points[a]), pointTextTokens(g.points[b]))

NonAutoIds(g) == {id \in DOMAIN g.points : ~IsAutoId(id)}

\* The auto points of `g` that are near-duplicates of a non-auto point.
NearDuplicateAutoIds(g) ==
    {a \in DOMAIN g.points :
        IsAutoId(a) /\ \E n \in NonAutoIds(g) : ScoreAtLeastThreshold(SimilarityIn(g, a, n))}

\* `targets` gives each near-duplicate a most similar non-auto point.
MostSimilarTargets(g, targets) ==
    \A a \in DOMAIN targets :
        \A n \in NonAutoIds(g) :
            ~ScoreGreater(SimilarityIn(g, a, n), SimilarityIn(g, a, targets[a]))

\* The list `after` is `before` with the near-duplicates replaced by their targets,
\* without a duplicate id and without a removed id.
ListCollapsed(before, after, targets) ==
    /\ Range(after) = {Aliased(targets, id) : id \in Range(before)}
    /\ Cardinality(Range(after)) = Len(after)
    /\ Range(after) \cap DOMAIN targets = {}

EntriesCollapsed(before, after, targets) ==
    /\ DOMAIN after = DOMAIN before
    /\ \A i \in DOMAIN before : ListCollapsed(before[i].pointIds, after[i].pointIds, targets)

RefsCollapsed(before, after, targets) ==
    /\ DOMAIN after = DOMAIN before
    /\ \A i \in DOMAIN before :
          /\ ListCollapsed(before[i].includePointIds, after[i].includePointIds, targets)
          /\ DOMAIN after[i].pointOverrides
               = {Aliased(targets, k) : k \in DOMAIN before[i].pointOverrides}

AliasCollapsedWith(g, rs, g2, rs2, targets) ==
    /\ MostSimilarTargets(g, targets)
    /\ EntriesCollapsed(g.sections.experience, g2.sections.experience, targets)
    /\ DOMAIN rs2 = DOMAIN rs
    /\ \A id \in DOMAIN rs :
          /\ EntriesCollapsed(rs[id].local.experience, rs2[id].local.experience, targets)
          /\ RefsCollapsed(rs[id].sections.experience, rs2[id].sections.experience, targets)

\* The stored (g, rs) normalized to (g2, rs2): the near-duplicate auto points are gone
\* from the pool, every other point is untouched, and every list names the targets.
AliasCollapsed(g, rs, g2, rs2) ==
    /\ DOMAIN g2.points = DOMAIN g.points \ NearDuplicateAutoIds(g)
    /\ \A id \in DOMAIN g2.points : g2.points[id] = g.points[id]
    /\ \E targets \in [NearDuplicateAutoIds(g) -> NonAutoIds(g)] :
          AliasCollapsedWith(g, rs, g2, rs2, targets)

\* C22: after normalizeStoredState every pt_auto point whose token set has Jaccard
\* similarity >= 0.9 with some non-auto global point is removed from the pool and every
\* occurrence of its id (pointIds of global entries and of local entities,
\* includePointIds, keys of pointOverrides) is replaced by the id of the most similar
\* non-auto point, with no duplicate id in a list and no reference to a removed id;
\* auto points below the threshold and all non-auto points are untouched.
C22_NormalizeCollapsesNearDuplicates ==
    last.op = "getResumeDetail"
      => AliasCollapsed(last.stored.global, last.stored.resumes, global, resumes)

\* A read that removed a near-duplicate auto point a resume listed, and kept another
\* auto point that is below the threshold.
C22_Witness ==
    /\ last.op = "getResumeDetail"
    /\ \E a \in NearDuplicateAutoIds(last.stored.global) :
          \E id \in DOMAIN last.stored.resumes :
              \E i \in DOMAIN last.stored.resumes[id].local.experience :
                  a \in Range(last.stored.resumes[id].local.experience[i].pointIds)
    /\ \E a \in DOMAIN global.points : IsAutoId(a)

\* C23: updateGlobalCatalog runs relink, then variant expansion, then impact analysis,
\* and only then compiles, and it compiles and rewrites only resumes of the affected set:
\* from a normalized stored state, every resume outside the affected set has the same
\* persisted document after the call as before it.
C23_OnlyAffectedRewritten ==
    last.op = "updateGlobalCatalog"
      => /\ \A id \in DOMAIN last.before \ last.affected :
               Has(resumes, id) /\ resumes[id] = last.before[id]
         /\ \A id \in last.affected :
               /\ Has(last.afterMatrix, id) /\ Has(resumes, id)
               /\ resumes[id].lastCompiledAt = clock
               /\ BodyOf(resumes[id]) = BodyOf(last.afterMatrix[id])

\* A text edit that left a stored resume outside the affected set.
C23_Witness ==
    /\ last.op = "updateGlobalCatalog"
    /\ last.oldGlobal.points # last.newGlobal.points
    /\ \E id \in DOMAIN last.before \ last.affected :
          resumes[id] = last.before[id] /\ resumes[id].lastCompiledAt < clock

(***************************************************************************)
(* The export folder: the handlers with their compile results, the PDFs    *)
(* they export, deleteResumeFamily, and the state read that reconciles     *)
(* the store with the folder                                               *)
(***************************************************************************)
\* The resume families that may be stored when the export folder is followed.
MaxStoredFamilies == 3

\* `${sanitizeFileName(resume.name)}__${resume.id}.pdf`
ExportFileName(resume) == <<resume.name, resume.id>>

\* getExportPathCandidatesForResume: nested, flat with the id, legacy flat (the sanitized
\* and the raw name are the same for the names used here).
getExportPathCandidatesForResume(resume) ==
    << <<resume.variantEmail, resume.variantLocation, resume.name, resume.id>>,
       <<resume.name, resume.id>>,
       <<resume.name>> >>

\* syncPdfToExportDirectory with the file system working: the previous file of the
\* resume is removed when its name changed, and the manifest names the new file.
syncPdfToExportDirectory(ex, resume) ==
    IF ~ex.dir THEN ex
    ELSE [dir |-> TRUE, folder |-> TRUE,
          manifest |-> Put(ex.manifest, resume.id, ExportFileName(resume)),
          files |-> (ex.files
                       \ (IF Has(ex.manifest, resume.id)
                             /\ ex.manifest[resume.id] # ExportFileName(resume)
                          THEN {ex.manifest[resume.id]} ELSE {}))
                      \cup {ExportFileName(resume)}]

\* The export folder after the resumes of `order` that are in `withPdf` were exported.
ExportEach(ex, rs, order, withPdf) ==
    LET F[i \in 0..Len(order)] ==
            IF i = 0 THEN ex
            ELSE IF order[i] \in withPdf THEN syncPdfToExportDirectory(F[i-1], rs[order[i]])
                 ELSE F[i-1]
    IN F[Len(order)]

\* The results of compiling `ids` when the compiler succeeds for `okIds`.
ResultsWith(ids, okIds, dir) ==
    [id \in ids |-> [ok |-> id \in okIds,
                     exported |-> IF id \in okIds /\ dir THEN "done" ELSE "off"]]

\* removeResumesAndArtifacts: what it does to the export folder and the manifest.
removeResumesAndArtifacts(ex, ids) ==
    [ex EXCEPT !.files = @ \ (IF ex.dir
                              THEN {ex.manifest[id] : id \in ids \cap DOMAIN ex.manifest}
                              ELSE {}),
               !.manifest = Drop(@, ids)]

\* The candidate paths of a resume: the manifest's, then those made from its name.
CandidatesOf(manifest, resume) ==
    (IF Has(manifest, resume.id) THEN <<manifest[resume.id]>> ELSE <<>>)
      \o getExportPathCandidatesForResume(resume)

\* matchedPath: the first candidate that is unclaimed and in the folder; <<>> when none.
MatchedPath(candidates, claimed, files) ==
    LET F[i \in 0..Len(candidates)] ==
            IF i = 0 THEN <<>>
            ELSE IF F[i-1] # <<>> THEN F[i-1]
                 ELSE IF candidates[i] \notin claimed /\ candidates[i] \in files
                      THEN <<candidates[i]>> ELSE <<>>
    IN F[Len(candidates)]

ReconcileMatched(acc, id, matched) ==
    IF matched = <<>> THEN [acc EXCEPT !.missing = @ \cup {id}]
    ELSE [manifest |-> Put(acc.manifest, id, matched[1]),
          claimed |-> acc.claimed \cup {matched[1]},
          missing |-> acc.missing]

ReconcileOne(acc, resume, files) ==
    ReconcileMatched(acc, resume.id,
                     MatchedPath(CandidatesOf(acc.manifest, resume), acc.claimed, files))

\* The first loop of reconcileDeletedResumesFromExportFolder.
ReconcileEach(ex, rs, order) ==
    LET F[i \in 0..Len(order)] ==
            IF i = 0 THEN [manifest |-> ex.manifest, claimed |-> {}, missing |-> {}]
            ELSE ReconcileOne(F[i-1], rs[order[i]], ex.files)
    IN F[Len(order)]

\* The end of reconcileDeletedResumesFromExportFolder: the families of the resumes
\* with no exported file are removed.
ReconcileRemoved(ex, rs, deleted) ==
    [resumes |-> Drop(rs, deleted),
     exports |-> removeResumesAndArtifacts(ex, deleted),
     deleted |-> deleted]

ReconcileWith(ex, rs, manifest, missing) ==
    IF missing = {}
    THEN [resumes |-> rs, exports |-> [ex EXCEPT !.manifest = manifest], deleted |-> {}]
    ELSE ReconcileRemoved([ex EXCEPT !.manifest = manifest], rs,
                          {id \in DOMAIN rs :
                              rs[id].templateId \in {rs[m].templateId : m \in missing}})

ReconcileLooped(ex, rs, acc) ==
    ReconcileWith(ex, rs, Drop(acc.manifest, DOMAIN acc.manifest \ DOMAIN rs), acc.missing)

\* reconcileDeletedResumesFromExportFolder: nothing to do without an existing folder.
reconcileDeletedResumesFromExportFolder(ex, rs) ==
    IF ~ex.dir \/ ~ex.folder THEN [resumes |-> rs, exports |-> ex, deleted |-> {}]
    ELSE ReconcileLooped(ex, rs, ReconcileEach(ex, rs, SortBy(ResumeIdOrder, DOMAIN rs)))

\* What a handler stores when the compiler succeeds for `okIds` of the family it
\* compiles, and the PDFs it exports.
StoreExported(op, before, r, request, okIds, now) ==
    /\ global' = r.global
    /\ resumes' = Overlay(r.resumes,
                          compileAndUpdateResumes(r.resumes, r.family,
                                                  ResultsWith(r.family, okIds, exports.dir), now))
    /\ exports' = ExportEach(exports, r.resumes, SortBy(ResumeIdOrder, r.family), okIds)
    /\ commits' = Committed(commits, r.global)
    /\ events' = IF r.family = {} THEN events ELSE recordCommitEvent(events, r.family)
    /\ clock' = clock + 1
    /\ last' = Did(op, r.global, before, r.family) @@ [request |-> request, failed |-> FALSE]
    /\ UNCHANGED <<procs, tracked>>

\* createResume throwing 'No source resume available to clone.'
CreateFailed(request, normalized) ==
    /\ global' = normalized.global
    /\ resumes' = normalized.resumes
    /\ clock' = clock + 1
    /\ last' = Did("createResume", normalized.global, normalized.resumes, {})
                  @@ [request |-> request, failed |-> TRUE]
    /\ UNCHANGED <<commits, counters, events, procs, tracked, exports>>

CreatedWith(request, before, r) ==
    \E okIds \in SUBSET r.family :
        /\ StoreExported("createResume", before, r, request, okIds, clock + 1)
        /\ counters' = [counters EXCEPT !.resume = r.drawn]

CreateResumeExported ==
    /\ clock < MaxOps
    /\ Cardinality(Families(resumes)) < MaxStoredFamilies
    /\ \E sourceResumeId \in DOMAIN resumes \cup {NoId, "resume_unknown"} :
          IF DOMAIN resumes = {}
          THEN CreateFailed([name |-> "New Resume", sourceResumeId |-> sourceResumeId],
                            normalizeStoredState(global, resumes))
          ELSE CreatedWith([name |-> "New Resume", sourceResumeId |-> sourceResumeId],
                           normalizeStoredState(global, resumes).resumes,
                           createResume(global, resumes, "New Resume", sourceResumeId,
                                        counters.resume, clock + 1))

SavedWith(resumeId, input, before, r) ==
    \E okIds \in SUBSET r.family :
        /\ StoreExported("updateResumeDocument", before, r,
                         [resumeId |-> resumeId, nextResume |-> input.draft], okIds, clock + 1)
        /\ counters' = [counters EXCEPT !.lp = @ + input.lp, !.lexp = @ + input.lexp]

SaveDraftExported(resumeId, normalized) ==
    \E input \in DraftInputs(normalized.global, normalized.resumes[resumeId],
                             counters.lp, counters.lexp) :
        SavedWith(resumeId, input, normalized.resumes,
                  updateResumeDocument(global, resumes, resumeId, input.draft, clock + 1))

UpdateResumeDocumentExported ==
    /\ clock < MaxOps
    /\ \E resumeId \in DOMAIN resumes :
          SaveDraftExported(resumeId, normalizeStoredState(global, resumes))

\* deleteResumeFamily, after normalizeStoredState.
DeleteFamilyIn(normalized, resumeId, family) ==
    /\ global' = normalized.global
    /\ resumes' = Drop(normalized.resumes, family)
    /\ exports' = removeResumesAndArtifacts(exports, family)
    /\ commits' = IF family = {} THEN commits ELSE Committed(commits, normalized.global)
    /\ events' = IF family = {} THEN events ELSE recordCommitEvent(events, family)
    /\ clock' = clock + 1
    /\ last' = Did("deleteResumeFamily", normalized.global, normalized.resumes, family)
                  @@ [request |-> [resumeId |-> resumeId]]
    /\ UNCHANGED <<counters, procs, tracked>>

DeleteFamilyOf(normalized, resumeId) ==
    DeleteFamilyIn(normalized, resumeId,
                   IF Has(normalized.resumes, resumeId)
                   THEN FamilyOf(normalized.resumes, resumeId) ELSE {})

DeleteResumeFamily ==
    /\ clock < MaxOps
    /\ \E resumeId \in DOMAIN resumes \cup {"resume_unknown"} :
          DeleteFamilyOf(normalizeStoredState(global, resumes), resumeId)

\* updateAppSettings: exportPdfDir set or cleared, then syncCurrentCompiledPdfsToExport
\* of the resumes whose current PDF exists.  `made`: the folder chosen exists on disk.
SettingsUpdated(dir, made, withPdf) ==
    /\ exports' = ExportEach([exports EXCEPT !.dir = dir, !.folder = @ \/ (dir /\ made)],
                             resumes, SortBy(ResumeIdOrder, DOMAIN resumes), withPdf)
    /\ last' = Did("updateAppSettings", global, resumes, {})
    /\ UNCHANGED <<global, resumes, commits, counters, clock, events, procs, tracked>>

UpdateAppSettings ==
    \E dir \in BOOLEAN, made \in BOOLEAN :
        SettingsUpdated(dir, made,
                        {id \in DOMAIN resumes : resumes[id].lastCompileStatus = "success"})

\* The user deletes an exported PDF from the export folder.
RemoveExportedPdf ==
    /\ \E file \in exports.files : exports' = [exports EXCEPT !.files = @ \ {file}]
    /\ last' = Did("removeExportedPdf", global, resumes, {})
    /\ UNCHANGED <<global, resumes, commits, counters, clock, events, procs, tracked>>

StoreReconciled(normalized, reconciled) ==
    /\ global' = normalized.global
    /\ resumes' = reconciled.resumes
    /\ exports' = reconciled.exports
    /\ commits' = IF reconciled.deleted = {} THEN commits
                  ELSE Committed(commits, normalized.global)
    /\ events' = IF reconciled.deleted = {} THEN events
                 ELSE recordCommitEvent(events, reconciled.deleted)
    /\ last' = Did("getAppState", normalized.global, normalized.resumes, reconciled.deleted)
                  @@ [exports |-> exports]
    /\ UNCHANGED <<counters, clock, procs, tracked>>

GetAppStateIn(normalized) ==
    StoreReconciled(normalized,
                    reconcileDeletedResumesFromExportFolder(exports, normalized.resumes))

\* getAppState: normalizeStoredState, then reconcileDeletedResumesFromExportFolder.
GetAppState == GetAppStateIn(normalizeStoredState(global, resumes))

NextExport ==
    \/ CreateResumeExported
    \/ UpdateResumeDocumentExported
    \/ DeleteResumeFamily
    \/ UpdateAppSettings
    \/ RemoveExportedPdf
    \/ GetAppState

SpecExport == Init /\ [][NextExport]_vars

(***************************************************************************)
(* Claims about createResume and the reconciliation with the export folder *)
(***************************************************************************)
\* The first stored resume: resumes[0] of loadAllResumes.
FirstStored(rs) == rs[SortBy(ResumeIdOrder, DOMAIN rs)[1]]

\* The document is a clone of `source` named `name`.
ClonedFrom(doc, source, name) ==
    /\ doc.name = name
    /\ doc.sections = source.sections
    /\ doc.local = source.local

\* C24: createResume called with a sourceResumeId that names no stored resume does not
\* report not-found: it clones the first stored resume instead; it fails, creating
\* nothing, only when no resume is stored at all.
C24_UnknownSourceClonesFirst ==
    last.op = "createResume"
      => IF DOMAIN last.before = {}
         THEN last.failed /\ resumes = last.before
         ELSE /\ ~last.failed
              /\ last.affected # {}
              /\ last.affected \cap DOMAIN last.before = {}
              /\ last.affected \subseteq DOMAIN resumes
              /\ ~Has(last.before, last.request.sourceResumeId)
                   => \A id \in last.affected :
                         ClonedFrom(resumes[id], FirstStored(last.before), last.request.name)

\* A create that named no stored resume while the store held resumes that differ.
C24_Witness ==
    /\ last.op = "createResume"
    /\ last.request.sourceResumeId = "resume_unknown"
    /\ ~last.failed
    /\ \E other \in DOMAIN last.before :
          last.before[other].local # FirstStored(last.before).local
    /\ \E id \in last.affected :
          ClonedFrom(resumes[id], FirstStored(last.before), last.request.name)

\* The manifest names a file exported for the resume that is no longer in the folder.
ExportedPdfGone(ex, id) == Has(ex.manifest, id) /\ ex.manifest[id] \notin ex.files

\* C28: with an export folder configured, getAppState removes a resume family only when
\* a PDF that was previously exported for one of its members is no longer present in the
\* export folder; a family none of whose members has ever been exported is never removed
\* by a state read.
C28_ReadKeepsNeverExported ==
    last.op = "getAppState"
      => \A id \in DOMAIN last.before \ DOMAIN resumes :
            \E member \in FamilyOf(last.before, id) : ExportedPdfGone(last.exports, member)

(***************************************************************************)
(* Claims about what a catalog update recompiles                           *)
(***************************************************************************)
\* The bullet texts of each entry of a rendered experience section.
RenderedTexts(rendered) ==
    [at \in DOMAIN rendered.sections.experience |-> EntryTextsAt(rendered, at)]

\* What the renderer reads: the header, the spacing, the resolved entries of each
\* section and the texts of their points.
RenderShown(rendered, spacing) ==
    [header |-> rendered.header, spacing |-> spacing, sections |-> rendered.sections,
     texts |-> RenderedTexts(rendered)]

RenderDataOf(g, doc) == RenderShown(buildRenderedResumeData(g, doc), g.spacing)

\* C25: after updateGlobalCatalog(old -> new), every resume whose resolved render data
\* (header, spacing, resolved entries of each section and the texts of their points)
\* differs between the old and the new catalog is in the affected set and is recompiled.
C25_RenderChangeIsAffected ==
    last.op = "updateGlobalCatalog"
      => \A id \in DOMAIN last.before \cap DOMAIN resumes :
            RenderDataOf(last.oldGlobal, last.before[id]) # RenderDataOf(global, resumes[id])
              => id \in last.affected /\ resumes[id].lastCompiledAt = clock

\* The bullet texts that resume `doc` shows, against catalog `g`, for its local entry
\* at index `at`.
LocalEntryTexts(g, doc, at) ==
    EntryTexts(buildRenderedResumeData(g, doc), doc.local.experience[at].id)

\* C26: the relink pass of updateGlobalCatalog changes linkage only: for every resume
\* and every referenced local entity, the sequence of bullet texts resolved against the
\* new catalog is the same immediately before and immediately after the relink pass.
C26_RelinkKeepsTexts ==
    last.op = "updateGlobalCatalog"
      => \A id \in DOMAIN last.before :
            \A at \in ReferencedEntryIndexes(last.before[id]) :
                /\ at \in DOMAIN last.afterRelink[id].local.experience
                /\ LocalEntryTexts(global, last.afterRelink[id], at)
                     = LocalEntryTexts(last.newGlobal, last.before[id], at)

\* C27: the state persisted by a completed updateGlobalCatalog is a fixed point of
\* state-load normalization: a normalizeStoredState run immediately afterwards changes
\* neither the persisted catalog nor any persisted resume.
C27_UpdateStoresNormalizedState ==
    last.op = "updateGlobalCatalog"
      => /\ normalizeStoredState(global, resumes).global = global
         /\ normalizeStoredState(global, resumes).resumes = resumes

(***************************************************************************)
(* Claims about the resume editor and about resume families                *)
(***************************************************************************)
\* The point ids the ref at `refIndex` of `doc` retains of its global entry, in order.
RetainedOf(g, doc, refIndex) ==
    IF GlobalSource(g, doc.sections.experience[refIndex]) = <<>> THEN <<>>
    ELSE IncludedPointIds(GlobalSource(g, doc.sections.experience[refIndex])[1].pointIds,
                          doc.sections.experience[refIndex].includePointIds)

\* The refs of `doc` to an entry of the catalog.
GlobalRefIndexes(g, doc) ==
    {i \in DOMAIN doc.sections.experience :
        /\ doc.sections.experience[i].localId = NoId
        /\ doc.sections.experience[i].globalId # NoId
        /\ GlobalSource(g, doc.sections.experience[i]) # <<>>}

\* Removing `pointId` from the ref leaves the other retained points and only them.
RemovedFromRef(g, doc, refIndex, pointId) ==
    RetainedOf(g, removePointFromRef(doc, g, refIndex, pointId), refIndex)
      = FilterIn(RetainedOf(g, doc, refIndex), Range(RetainedOf(g, doc, refIndex)) \ {pointId})

\* C29: in the resume editor, removing point P from a ref to a global entry makes P
\* absent from that ref's resolved point list while every other point shown before
\* stays shown, for every P and whatever the number of points the ref still shows.
C29_RemovePointHidesIt ==
    \A id \in DOMAIN resumes :
        \A refIndex \in GlobalRefIndexes(global, resumes[id]) :
            \A pointId \in Range(RetainedOf(global, resumes[id], refIndex)) :
                RemovedFromRef(global, resumes[id], refIndex, pointId)

\* C30: in every state reachable by a serial sequence of createResume,
\* updateResumeDocument, overridePointForResume and updateGlobalCatalog, all resumes that
\* share a templateId have identical name, sections and local pool; the members of a
\* family differ only in id, variant, timestamps and compile status.
C30_FamilyMembersIdentical ==
    \A a \in DOMAIN resumes :
        \A b \in FamilyOf(resumes, a) : BodyOf(resumes[a]) = BodyOf(resumes[b])

\* A family of two or more members after an override was written to it.
C30_Witness ==
    /\ last.op = "overridePointForResume"
    /\ Cardinality(last.affected) >= 2
    /\ \A id \in last.affected :
          /\ Has(resumes, id)
          /\ resumes[id].local.points # EmptyMap
          /\ \A other \in last.affected : BodyOf(resumes[other]) = BodyOf(resumes[id])

====
